---- MODULE Spec2Model ----
(***************************************************************************)
(* Model of the segmented, concurrency-bounded transcription pipeline of   *)
(* transcriber/model.py: transcribe_file, run_segment, transcribe_segment, *)
(* _format_ts, together with the asyncio.Semaphore gate they share         *)
(* (specification Spec; FairSpec adds the scheduling of the event loop,   *)
(* RetrySpec keeps on record what a stream had yielded when it raised),    *)
(* and of the segmenter split_mp3_by_size of                               *)
(* transcriber/audio.py (specification SegmenterSpec).  Three functions    *)
(* are also called on their own: _format_ts (FormatSpec),                  *)
(* Config.within_schedule_window of transcriber/config.py (ScheduleSpec)   *)
(* and sanitize_filename of transcriber/utils.py (SanitizeSpec); and       *)
(* process_drive_files of transcriber/runner.py, the loop over the listed  *)
(* files around transcribe_file, is the specification RunnerSpec.  Each    *)
(* specification holds the variables of the others at their idle values.   *)
(*                                                                         *)
(* Representation.                                                         *)
(*   - A character is a one-character string; the invisible direction mark *)
(*     U+200F is written RLM.  Fragments and file names are sequences of   *)
(*     characters, so that strip(), join(), re.match and sorted() are      *)
(*     computed character by character.  Texts that are only concatenated  *)
(*     (results, placeholders, full_text) are TLA+ strings.                *)
(*   - Times are Python floats that are multiples of 0.5 s, held as an     *)
(*     integer count of half seconds (such floats add exactly).            *)
(*   - One action is one step of the event loop: the code a task runs      *)
(*     between two suspension points (gate wait, adapter stream, sleep).   *)
(*     The fetches of one stream are a single step: between them a task    *)
(*     only appends to its own list, which no other task reads.            *)
(***************************************************************************)
EXTENDS Integers, Sequences, FiniteSets, TLC

(* ------------------------------ bounds -------------------------------- *)
MaxSegments == 2          \* segment files in work_dir
MaxRetries == 1           \* largest max_segment_retries tried

(* --------------------------- input domains ---------------------------- *)
RLM == "<U+200F>"
NL == "\n"
Fragments == { <<" ">>, <<RLM, "a">> }
ErrorMessages == { "boom", "" }
\* ffprobe results in half seconds; 0 is _probe_duration's answer on error
ProbeResults == { 0, 21 }
SegSecondsValues == { 10 }
\* the gate sizes tried: closed, narrower than the segments, as wide
ConcurrencyValues == { 0, 1, 2 }
\* the source at mp3_full_path, a file of work_dir that is no segment; the
\* source exists when work_dir holds it
SourceName == <<"a", ".", "m", "p", "3">>

(* ----------------------------- characters ----------------------------- *)
DigitChars == <<"0", "1", "2", "3", "4", "5", "6", "7", "8", "9">>

\* the characters of file names in code point order
Alphabet == <<".">> \o DigitChars \o <<"a", "e", "g", "m", "p", "s">>

CodePoint(c) == CHOOSE k \in 1..Len(Alphabet) : Alphabet[k] = c

IsDigit(c) == \E k \in 1..10 : DigitChars[k] = c

IsSpace(c) == c \in { " ", NL }

RECURSIVE Str(_)
\* the string a sequence of characters spells
Str(cs) == IF cs = <<>> THEN "" ELSE Head(cs) \o Str(Tail(cs))

RECURSIVE DecChars(_)
\* the decimal digits of n >= 0
DecChars(n) ==
    IF n < 10 THEN <<DigitChars[n + 1]>>
    ELSE DecChars(n \div 10) \o <<DigitChars[(n % 10) + 1]>>

RECURSIVE ZeroPad(_, _)
\* printf's %0wd
ZeroPad(cs, w) == IF Len(cs) >= w THEN cs ELSE ZeroPad(<<"0">> \o cs, w)

(* ------------------------------ _format_ts ---------------------------- *)
\* Python's round() on a multiple of 0.5: ties go to the even integer
Round(halves) ==
    LET q == halves \div 2
    IN  IF halves % 2 = 0 THEN q
        ELSE IF q % 2 = 0 THEN q ELSE q + 1

\* the minutes taken from the whole count: m = total // 60
FormatTsCharsWholeMinutes(halves) ==
    LET total == Round(halves)
        h == total \div 3600
        m == total \div 60
        s == total % 60
    IN  ZeroPad(DecChars(h), 2) \o <<":">> \o ZeroPad(DecChars(m), 2) \o <<":">>
            \o ZeroPad(DecChars(s), 2)

\* the characters of f"{h:02d}:{m:02d}:{s:02d}" for int(round(seconds))
FormatTsChars(halves) ==
    LET total == Round(halves)
        h == total \div 3600
        m == (total % 3600) \div 60
        s == total % 60
    IN  ZeroPad(DecChars(h), 2) \o <<":">> \o ZeroPad(DecChars(m), 2) \o <<":">>
            \o ZeroPad(DecChars(s), 2)

\* the format {h}:{m}:{s} without the zero padding
FormatTsUnpadded(halves) ==
    LET total == Round(halves)
        h == total \div 3600
        m == (total % 3600) \div 60
        s == total % 60
    IN  Str(DecChars(h)) \o ":" \o Str(DecChars(m)) \o ":" \o Str(DecChars(s))

_format_ts(halves) == Str(FormatTsChars(halves))

(* ------------------------- text of one attempt ------------------------ *)
\* clean_some_unicode_from_text: drops the direction and zero-width marks
clean_some_unicode_from_text(cs) == SelectSeq(cs, LAMBDA c : c # RLM)

RECURSIVE JoinChars(_, _)
\* sep.join(parts) on character sequences
JoinChars(parts, sep) ==
    IF parts = <<>> THEN <<>>
    ELSE IF Len(parts) = 1 THEN parts[1]
    ELSE parts[1] \o sep \o JoinChars(Tail(parts), sep)

RECURSIVE LStrip(_)
LStrip(cs) == IF cs # <<>> /\ IsSpace(Head(cs)) THEN LStrip(Tail(cs)) ELSE cs

RECURSIVE RStrip(_)
RStrip(cs) ==
    IF cs # <<>> /\ IsSpace(cs[Len(cs)]) THEN RStrip(SubSeq(cs, 1, Len(cs) - 1))
    ELSE cs

Strip(cs) == RStrip(LStrip(cs))

\* "\n".join(collected).strip()
AttemptText(collected) == Str(Strip(JoinChars(collected, <<NL>>)))

(* --------------------------- segment discovery ------------------------ *)
\* out_pattern % i for the pattern seg%03d.mp3
SegName(i) == <<"s", "e", "g">> \o ZeroPad(DecChars(i), 3) \o <<".", "m", "p", "3">>

\* re.match(r"seg\d{3}\.mp3", f): anchored at the start only
MatchesPattern(f) ==
    /\ Len(f) >= 10
    /\ SubSeq(f, 1, 3) = <<"s", "e", "g">>
    /\ \A k \in 4..6 : IsDigit(f[k])
    /\ SubSeq(f, 7, 10) = <<".", "m", "p", "3">>

RECURSIVE LexLess(_, _)
\* Python's < on strings
LexLess(a, b) ==
    IF a = <<>> THEN b # <<>>
    ELSE IF b = <<>> THEN FALSE
    ELSE IF Head(a) = Head(b) THEN LexLess(Tail(a), Tail(b))
    ELSE CodePoint(Head(a)) < CodePoint(Head(b))

RECURSIVE SortedDescending(_)
\* sorted(..., reverse=True) of a set of distinct names
SortedDescending(S) ==
    IF S = {} THEN <<>>
    ELSE LET most == CHOOSE x \in S : \A y \in S \ {x} : LexLess(y, x)
         IN  <<most>> \o SortedDescending(S \ {most})

RECURSIVE Sorted(_)
\* sorted() of a set of distinct names
Sorted(S) ==
    IF S = {} THEN <<>>
    ELSE LET least == CHOOSE x \in S : \A y \in S \ {x} : LexLess(x, y)
         IN  <<least>> \o Sorted(S \ {least})

DiscoverSegments(dir) == Sorted({ f \in dir : MatchesPattern(f) })

(* ------------------------------- state -------------------------------- *)
VARIABLES
    bypass_split,         \* argument of transcribe_file
    max_concurrency,      \* argument of transcribe_file
    max_segment_retries,  \* argument of transcribe_file
    seg_seconds,          \* argument of transcribe_file
    work_dir,             \* the file names in work_dir
    pc,                   \* where transcribe_file is
    segments,             \* the sorted segment file names
    probed,               \* probed[i + 1]: what _probe_duration gave for segment i
    durations,            \* durations[i + 1]: duration of segment i, in half seconds
    starts,               \* starts[i + 1]: start of segment i, in half seconds
    ends,                 \* ends[i + 1]: end of segment i, in half seconds
    sem,                  \* the asyncio.Semaphore: value and waiters deque
    task,                 \* task[i]: the run_segment(i, segments[i]) task
    results,              \* what asyncio.gather returned
    overtaken,            \* some task finished before a task of lower index
    replaced,             \* a lone segment's last attempt failed otherwise than the one before
    splits,               \* calls of splitter_fn so far
    outcome               \* what transcribe_file returned

\* the state of split_mp3_by_size (transcriber/audio.py)
VARIABLES
    source,               \* the file at mp3_path: exists, size in bytes, content
    max_segment_size,     \* argument of split_mp3_by_size, in bytes
    fallback_seg_seconds, \* argument of split_mp3_by_size
    seg_pc,               \* where split_mp3_by_size is
    bitrate_bits,         \* what _get_bitrate_bits returned
    duration_target,      \* the local duration_target, in seconds
    probes,               \* calls of _get_bitrate_bits so far
    ffmpeg,               \* the -segment_time of every ffmpeg split run so far
    written,              \* the files written: name and content
    raised                \* the exception split_mp3_by_size raised, "" if none

pipeline == <<bypass_split, max_concurrency, max_segment_retries, seg_seconds, work_dir,
              pc, segments, probed, durations, starts, ends, sem, task, results,
              overtaken, replaced, splits, outcome>>

segmenter == <<source, max_segment_size, fallback_seg_seconds, seg_pc, bitrate_bits,
               duration_target, probes, ffmpeg, written, raised>>

\* the state of one call of a pure function (model.py, config.py, utils.py)
VARIABLES
    ts_call,              \* _format_ts: the argument and what was returned
    window_call,          \* Config.within_schedule_window: the fields, now, the answer
    sanitize_call         \* sanitize_filename: the name and what was returned

\* the state of process_drive_files (transcriber/runner.py)
VARIABLES
    cfg,                  \* the Config passed in, as far as the run reads it
    run_pc,               \* where process_drive_files is
    files,                \* what list_audio_files returned
    file_index,           \* the position of the loop in files, from 1
    effects,              \* the calls made to Drive, ffmpeg, the model and SMTP, in order
    summaries,            \* the list summaries
    ret                   \* what process_drive_files returned

functions == <<ts_call, window_call, sanitize_call>>

runner == <<cfg, run_pc, files, file_index, effects, summaries, ret>>

vars == <<pipeline, segmenter, functions, runner>>

\* what a step of transcribe_file, of split_mp3_by_size, of a pure function
\* and of process_drive_files leaves alone
not_pipeline == <<segmenter, functions, runner>>

not_segmenter == <<pipeline, functions, runner>>

not_functions == <<pipeline, segmenter, runner>>

not_runner == <<pipeline, segmenter, functions>>

\* no pure function is being called
NoCall == [fn |-> "none"]

FunctionsIdle ==
    /\ ts_call = NoCall
    /\ window_call = NoCall
    /\ sanitize_call = NoCall

\* process_drive_files has not returned
NoReturn == [kind |-> "none", value |-> ""]

\* process_drive_files is not running
RunnerIdle ==
    /\ cfg = [set |-> FALSE]
    /\ run_pc = "idle"
    /\ files = <<>>
    /\ file_index = 0
    /\ effects = <<>>
    /\ summaries = <<>>
    /\ ret = NoReturn

args == <<bypass_split, max_concurrency, max_segment_retries, seg_seconds>>

timing == <<probed, durations, starts, ends>>

gate == <<sem, task, overtaken, replaced>>

\* Python's None for bitrate_bits
NoBitrate == [set |-> FALSE, val |-> 0]

\* split_mp3_by_size is not running
SegmenterIdle ==
    /\ source = [exists |-> FALSE, size |-> 0, content |-> ""]
    /\ max_segment_size = 0
    /\ fallback_seg_seconds = 0
    /\ seg_pc = "idle"
    /\ bitrate_bits = NoBitrate
    /\ duration_target = 0
    /\ probes = 0
    /\ ffmpeg = <<>>
    /\ written = {}
    /\ raised = ""

NoSem == [created |-> FALSE, value |-> 0, waiters |-> <<>>]

NoOutcome == [returned |-> FALSE, full_text |-> "", segments |-> <<>>]

\* Python's None for last_error
None == [set |-> FALSE, msg |-> ""]

Some(msg) == [set |-> TRUE, msg |-> msg]

NoResult == [index |-> -1, text |-> ""]

\* what the adapter did last, before the segment's first attempt
NoAttempt == [kind |-> "none", text |-> ""]

\* a task asyncio.create_task has made and the loop has not run yet.
\* attempt and last_error are the locals of transcribe_segment that outlive an
\* attempt; calls (adapter calls made), fails (attempts that failed), final
\* (what the adapter did last), sleeps (backoff sleeps started) and dropped
\* (the list collected by the last attempt whose stream raised) record what
\* the segment has done.
NewTask ==
    [pc |-> "created", attempt |-> 0, last_error |-> None, result |-> NoResult,
     calls |-> 0, fails |-> 0, final |-> NoAttempt, sleeps |-> <<>>,
     dropped |-> <<>>]

\* the task of run_segment(idx, fname)
RunSegment(idx, fname) == NewTask @@ [fname |-> fname]

Indices == 0..(Len(segments) - 1)

\* the segment files a directory can hold before the call
SegmentFiles(n) == { SegName(i) : i \in 0..(n - 1) }

Init ==
    /\ bypass_split \in BOOLEAN
    /\ max_concurrency \in ConcurrencyValues
    /\ max_segment_retries \in 0..MaxRetries
    /\ seg_seconds \in SegSecondsValues
    /\ \E n \in 0..MaxSegments, src \in SUBSET {SourceName} :
          work_dir = src \cup (IF bypass_split THEN SegmentFiles(n) ELSE {})
    /\ pc = "start"
    /\ segments = <<>>
    /\ probed = <<>>
    /\ durations = <<>>
    /\ starts = <<>>
    /\ ends = <<>>
    /\ sem = NoSem
    /\ task = <<>>
    /\ results = <<>>
    /\ overtaken = FALSE
    /\ replaced = FALSE
    /\ splits = 0
    /\ outcome = NoOutcome
    /\ SegmenterIdle
    /\ FunctionsIdle
    /\ RunnerIdle

(* --------------------- transcribe_file, before the tasks --------------- *)
\* a splitter that writes its segment files whether or not the source is there
SplitUnchecked ==
    /\ pc = "start"
    /\ ~bypass_split
    /\ \E n \in 0..MaxSegments : work_dir' = work_dir \cup SegmentFiles(n)
    /\ splits' = splits + 1
    /\ pc' = "discover"
    /\ UNCHANGED <<not_pipeline, args, segments, timing, gate, results, outcome>>

\* splitter_fn(mp3_full_path, out_pattern, seg_seconds) finds the source and
\* writes n segment files
Split ==
    /\ pc = "start"
    /\ ~bypass_split
    /\ SourceName \in work_dir
    /\ \E n \in 0..MaxSegments : work_dir' = work_dir \cup SegmentFiles(n)
    /\ splits' = splits + 1
    /\ pc' = "discover"
    /\ UNCHANGED <<not_pipeline, args, segments, timing, gate, results, outcome>>

\* splitter_fn finds no source and raises FileNotFoundError at once:
\* transcribe_file raises
SplitNotFound ==
    /\ pc = "start"
    /\ ~bypass_split
    /\ SourceName \notin work_dir
    /\ splits' = splits + 1
    /\ pc' = "raised"
    /\ UNCHANGED <<not_pipeline, args, work_dir, segments, timing, gate, results, outcome>>

\* splitter_fn finds the source and raises (copy or ffmpeg failed):
\* transcribe_file raises
SplitRaises ==
    /\ pc = "start"
    /\ ~bypass_split
    /\ SourceName \in work_dir
    /\ splits' = splits + 1
    /\ pc' = "raised"
    /\ UNCHANGED <<not_pipeline, args, work_dir, segments, timing, gate, results, outcome>>

\* a bypass that calls the splitter all the same
BypassCallsSplitter ==
    /\ pc = "start"
    /\ bypass_split
    /\ \E n \in 0..MaxSegments : work_dir' = work_dir \cup SegmentFiles(n)
    /\ splits' = splits + 1
    /\ pc' = "discover"
    /\ UNCHANGED <<not_pipeline, args, segments, timing, gate, results, outcome>>

\* bypass_split: the segments are expected in work_dir already
Bypass ==
    /\ pc = "start"
    /\ bypass_split
    /\ pc' = "discover"
    /\ UNCHANGED <<not_pipeline, args, work_dir, segments, timing, gate, results, splits,
                   outcome>>

\* discovery without the early return on an empty list
DiscoverNoEarlyReturn ==
    /\ pc = "discover"
    /\ segments' = DiscoverSegments(work_dir)
    /\ pc' = "probe"
    /\ UNCHANGED <<not_pipeline, args, work_dir, timing, gate, results, splits, outcome>>

\* sorted(listdir filtered by the pattern); nothing found: return "", []
Discover ==
    /\ pc = "discover"
    /\ segments' = DiscoverSegments(work_dir)
    /\ IF segments' = <<>>
       THEN /\ outcome' = [returned |-> TRUE, full_text |-> "", segments |-> <<>>]
            /\ pc' = "returned"
       ELSE /\ outcome' = outcome
            /\ pc' = "probe"
    /\ UNCHANGED <<not_pipeline, args, work_dir, timing, gate, results, splits>>

\* the nominal duration whatever the probe gave
DurationNominal(d, nominal) == 2 * nominal

\* _probe_duration(path) or float(seg_seconds), in half seconds
Duration(d, nominal) == IF d # 0 THEN d ELSE 2 * nominal

RECURSIVE CumulativeStartsLate(_, _)
\* the running sum with starts.append(cursor) after cursor += d
CumulativeStartsLate(ds, cursor) ==
    IF ds = <<>> THEN <<>>
    ELSE <<cursor + Head(ds)>> \o CumulativeStartsLate(Tail(ds), cursor + Head(ds))

RECURSIVE CumulativeStarts(_, _)
\* the starts list of the running sum that begins at cursor
CumulativeStarts(ds, cursor) ==
    IF ds = <<>> THEN <<>>
    ELSE <<cursor>> \o CumulativeStarts(Tail(ds), cursor + Head(ds))

RECURSIVE CumulativeEnds(_, _)
\* the ends list of the running sum that begins at cursor
CumulativeEnds(ds, cursor) ==
    IF ds = <<>> THEN <<>>
    ELSE <<cursor + Head(ds)>> \o CumulativeEnds(Tail(ds), cursor + Head(ds))

\* probes every segment, then accumulates starts and ends
Probe ==
    /\ pc = "probe"
    /\ probed' \in [1..Len(segments) -> ProbeResults]
    /\ durations' = [k \in 1..Len(segments) |-> Duration(probed'[k], seg_seconds)]
    /\ starts' = CumulativeStarts(durations', 0)
    /\ ends' = CumulativeEnds(durations', 0)
    /\ pc' = "spawn"
    /\ UNCHANGED <<not_pipeline, args, work_dir, segments, gate, results, splits, outcome>>

\* sem = asyncio.Semaphore(max_concurrency); one task per segment; await gather
Spawn ==
    /\ pc = "spawn"
    /\ sem' = [created |-> TRUE, value |-> max_concurrency, waiters |-> <<>>]
    /\ task' = [i \in Indices |-> RunSegment(i, segments[i + 1])]
    /\ pc' = "gather"
    /\ UNCHANGED <<not_pipeline, args, work_dir, segments, timing, results, overtaken,
                   replaced, splits, outcome>>

(* ------------------------- the admission gate -------------------------- *)
\* Semaphore.locked(): no permit left, or somebody is queued
Locked(s) == s.value = 0 \/ s.waiters # <<>>

\* a wake-up that leaves the permit in the semaphore as well
WakeUpNextKeepsPermit(s, t) ==
    LET pending == { k \in 1..Len(s.waiters) : t[s.waiters[k]].pc = "waiting" }
    IN  IF pending = {} THEN [sem |-> s, task |-> t]
        ELSE LET first == CHOOSE k \in pending : \A m \in pending : k <= m
                 w == s.waiters[first]
             IN  [sem |-> s, task |-> [t EXCEPT ![w].pc = "woken"]]

\* Semaphore._wake_up_next(): hands a permit to the first waiter not yet woken
WakeUpNext(s, t) ==
    LET pending == { k \in 1..Len(s.waiters) : t[s.waiters[k]].pc = "waiting" }
    IN  IF pending = {} THEN [sem |-> s, task |-> t]
        ELSE LET first == CHOOSE k \in pending : \A m \in pending : k <= m
                 w == s.waiters[first]
             IN  [sem |-> [s EXCEPT !.value = @ - 1],
                  task |-> [t EXCEPT ![w].pc = "woken"]]

\* a release that puts the permit back and wakes nobody
ReleaseNoWakeUp(s, t) == [sem |-> [s EXCEPT !.value = @ + 1], task |-> t]

\* Semaphore.release(), the exit of "async with sem"
Release(s, t) == WakeUpNext([s EXCEPT !.value = @ + 1], t)

(* ------------------------- transcribe_segment -------------------------- *)
\* attempts = max_retries
AttemptsOffByOne == max_segment_retries

\* attempts = max_retries + 1
Attempts == max_segment_retries + 1

\* the adapter streams tried, of up to three fragments: no fragment, blank
\* fragments only, and text around a blank fragment
Streams ==
    { stream \in UNION { [1..n -> Fragments] : n \in {0, 1, 2, 3} } :
        \/ \A k \in 1..Len(stream) : stream[k] = <<" ">>
        \/ stream = << <<RLM, "a">>, <<" ">>, <<RLM, "a">> >> }

\* collected: every fragment cleaned
Collected(stream) == [k \in 1..Len(stream) |-> clean_some_unicode_from_text(stream[k])]

\* a placeholder that is the bare reason
PlaceholderBare(i, last_error) ==
    IF last_error.set /\ last_error.msg # "" THEN last_error.msg ELSE "unknown"

\* the text built once every attempt has failed
Placeholder(i, last_error) ==
    LET start_ts == _format_ts(starts[i + 1])
        end_ts == _format_ts(ends[i + 1])
        reason == IF last_error.set /\ last_error.msg # "" THEN last_error.msg
                  ELSE "unknown"
    IN  "[Transcription failed - " \o start_ts \o " - " \o end_ts \o " Reason: "
            \o reason \o "]"

\* a result that carries its rank of completion in place of its index
ReturnCompletionIndexed(s, t, i, text) ==
    Release(s, [t EXCEPT ![i].pc = "done", ![i].attempt = 0, ![i].last_error = None,
                         ![i].result =
                             [index |-> Cardinality({ j \in DOMAIN t : t[j].pc = "done" }),
                              text |-> text]])

\* transcribe_segment returns {index, text}, its locals are gone, and run_segment
\* leaves "async with sem"
Return(s, t, i, text) ==
    Release(s, [t EXCEPT ![i].pc = "done", ![i].attempt = 0, ![i].last_error = None,
                         ![i].result = [index |-> i, text |-> text]])

\* a backoff counted from zero: asyncio.sleep(attempt - 1)
BackoffFromZero(attempt) == attempt - 1

\* the linear backoff, in seconds: asyncio.sleep(attempt)
Backoff(attempt) == attempt

\* a failure that keeps the first error: last_error = last_error or err
AfterFailureKeepsFirst(s, t, i, kind, err) ==
    LET t1 == [t EXCEPT ![i].last_error = IF @.set /\ @.msg # "" THEN @ ELSE Some(err),
                        ![i].fails = @ + 1,
                        ![i].final = [kind |-> kind, text |-> err]]
    IN  IF t[i].attempt < max_segment_retries + 1
        THEN [sem |-> s,
              task |-> [t1 EXCEPT ![i].pc = "sleep",
                                  ![i].sleeps = Append(@, t[i].attempt)]]
        ELSE Return(s, t1, i, Placeholder(i, t1[i].last_error))

\* the attempt of segment i failed with err: back off and retry, or give up
AfterFailure(s, t, i, kind, err) ==
    LET t1 == [t EXCEPT ![i].last_error = Some(err), ![i].fails = @ + 1,
                        ![i].final = [kind |-> kind, text |-> err]]
    IN  IF t[i].attempt < Attempts
        THEN [sem |-> s,
              task |-> [t1 EXCEPT ![i].pc = "sleep",
                                  ![i].sleeps = Append(@, Backoff(t[i].attempt))]]
        ELSE Return(s, t1, i, Placeholder(i, t1[i].last_error))

\* success without the return: the loop goes on to the backoff and the next attempt
AfterSuccessNoReturn(s, t, i, text) ==
    LET t1 == [t EXCEPT ![i].final = [kind |-> "text", text |-> text]]
    IN  IF t[i].attempt < max_segment_retries + 1
        THEN [sem |-> s,
              task |-> [t1 EXCEPT ![i].pc = "sleep",
                                  ![i].sleeps = Append(@, t[i].attempt)]]
        ELSE Return(s, t1, i, text)

\* the attempt of segment i ended with the non-empty text
AfterSuccess(s, t, i, text) ==
    Return(s, [t EXCEPT ![i].final = [kind |-> "text", text |-> text]], i, text)

\* the texts an exhausted stream can leave: "\n".join(collected).strip()
StreamTexts == { AttemptText(Collected(stream)) : stream \in Streams }

\* an exhausted stream that always succeeds, with whatever text it left
AfterStreamAcceptsEmpty(s, t, i, text) == AfterSuccess(s, t, i, text)

\* the stream of the attempt of segment i is exhausted and left text
AfterStream(s, t, i, text) ==
    IF text # "" THEN AfterSuccess(s, t, i, text)
    ELSE AfterFailure(s, t, i, "empty", "empty transcription")

\* segment i enters the next attempt: model.transcribe_async(...) is called
BeginAttempt(t, i) ==
    [t EXCEPT ![i].pc = "attempt", ![i].attempt = @ + 1, ![i].calls = @ + 1]

\* task i finishes in this step while a task of lower index has not
Overtakes(t, t2, i) ==
    /\ t[i].pc # "done"
    /\ t2[i].pc = "done"
    /\ \E j \in Indices : j < i /\ t2[j].pc # "done"

\* in a run of one segment, the last attempt of task i fails in this step with
\* another error than the one last_error held from the attempt before
Replaces(t, t2, i) ==
    /\ Len(segments) = 1
    /\ t[i].last_error.set
    /\ t2[i].fails = t[i].fails + 1
    /\ t2[i].pc = "done"
    /\ t2[i].final.text # t[i].last_error.msg

\* the state after a step of task i that leads to the pair nxt
Becomes(i, nxt) ==
    /\ sem' = nxt.sem
    /\ task' = nxt.task
    /\ overtaken' = (overtaken \/ Overtakes(task, nxt.task, i))
    /\ replaced' = (replaced \/ Replaces(task, nxt.task, i))
    /\ UNCHANGED <<not_pipeline, args, work_dir, pc, segments, timing, results, splits, outcome>>

\* run_segment without "async with sem": the first attempt begins at once
StartUngated(i) ==
    /\ pc = "gather"
    /\ task[i].pc = "created"
    /\ \A j \in Indices : j < i => task[j].pc # "created"
    /\ Becomes(i, [sem |-> sem, task |-> BeginAttempt(task, i)])

\* task i runs for the first time: "async with sem" takes a permit and the
\* first attempt begins, or the task queues
Start(i) ==
    /\ pc = "gather"
    /\ task[i].pc = "created"
    /\ \A j \in Indices : j < i => task[j].pc # "created"
    /\ Becomes(i, IF ~Locked(sem)
                  THEN [sem |-> [sem EXCEPT !.value = @ - 1],
                        task |-> BeginAttempt(task, i)]
                  ELSE [sem |-> [sem EXCEPT !.waiters = Append(@, i)],
                        task |-> [task EXCEPT ![i].pc = "waiting"]])

\* a woken waiter that gives up, without an attempt, once a segment has failed
\* for good
ResumeUnlessFailed(i) ==
    /\ pc = "gather"
    /\ task[i].pc = "woken"
    /\ LET s1 == [sem EXCEPT !.waiters = SelectSeq(@, LAMBDA w : w # i)]
           t1 == BeginAttempt(task, i)
           failed == \E j \in Indices : task[j].pc = "done" /\ task[j].final.kind # "text"
       IN  Becomes(i, IF failed THEN Return(s1, task, i, "cancelled")
                      ELSE IF s1.value > 0 THEN WakeUpNext(s1, t1)
                      ELSE [sem |-> s1, task |-> t1])

\* a woken waiter leaves acquire() and begins its first attempt
Resume(i) ==
    /\ pc = "gather"
    /\ task[i].pc = "woken"
    /\ LET s1 == [sem EXCEPT !.waiters = SelectSeq(@, LAMBDA w : w # i)]
           t1 == BeginAttempt(task, i)
       IN  Becomes(i, IF s1.value > 0 THEN WakeUpNext(s1, t1)
                      ELSE [sem |-> s1, task |-> t1])

\* model.transcribe_async(...) raised
CallRaises(i) ==
    /\ pc = "gather"
    /\ task[i].pc = "attempt"
    /\ \E msg \in ErrorMessages : Becomes(i, AfterFailure(sem, task, i, "raised", msg))

\* the stream raised while it was consumed: what it had yielded is dropped
StreamRaises(i) ==
    /\ pc = "gather"
    /\ task[i].pc = "attempt"
    /\ \E msg \in ErrorMessages : Becomes(i, AfterFailure(sem, task, i, "raised", msg))

\* what a stream had yielded when it raised: its first fragment of text
RaisedAfter == { << <<RLM, "a">> >> }

\* StreamRaises with the list on record that the attempt had collected when
\* its stream raised: the list is left behind, the except branch reads the
\* exception only
StreamBreaks(i) ==
    /\ pc = "gather"
    /\ task[i].pc = "attempt"
    /\ \E msg \in ErrorMessages, yielded \in RaisedAfter :
          LET collected == Collected(yielded)
              t == [task EXCEPT ![i].dropped = collected]
          IN  Becomes(i, AfterFailure(sem, t, i, "raised", msg))

\* a stream whose fragments are appended to the list an attempt left behind
StreamEndsKeepsCollected(i) ==
    /\ pc = "gather"
    /\ task[i].pc = "attempt"
    /\ \E stream \in Streams :
          LET collected == task[i].dropped \o Collected(stream)
          IN  Becomes(i, AfterStream(sem, task, i, AttemptText(collected)))

\* the stream was consumed to its end into a new list, collected = []: text,
\* or the failure "empty transcription"
StreamEnds(i) ==
    /\ pc = "gather"
    /\ task[i].pc = "attempt"
    /\ \E text \in StreamTexts : Becomes(i, AfterStream(sem, task, i, text))

\* a sleep outside the gate: the permit went back for the backoff, and the
\* next attempt begins without one
SleepDoneOutsideGate(i) ==
    /\ pc = "gather"
    /\ task[i].pc = "sleep"
    /\ Becomes(i, Release(sem, BeginAttempt(task, i)))

\* asyncio.sleep(attempt) is over: the next attempt
SleepDone(i) ==
    /\ pc = "gather"
    /\ task[i].pc = "sleep"
    /\ Becomes(i, [sem |-> sem, task |-> BeginAttempt(task, i)])

(* ----------------------------- reassembly ------------------------------ *)
RECURSIVE OrderedDescending(_)
\* sorted(results, key=..., reverse=True)
OrderedDescending(rs) ==
    IF rs = <<>> THEN <<>>
    ELSE LET k == CHOOSE k \in 1..Len(rs) :
                      /\ \A m \in 1..Len(rs) : rs[k].index >= rs[m].index
                      /\ \A m \in 1..(k - 1) : rs[m].index # rs[k].index
         IN  <<rs[k]>>
                 \o OrderedDescending(SubSeq(rs, 1, k - 1) \o SubSeq(rs, k + 1, Len(rs)))

RECURSIVE Ordered(_)
\* sorted(results, key=lambda r: r["index"]): stable, by ascending index
Ordered(rs) ==
    IF rs = <<>> THEN <<>>
    ELSE LET k == CHOOSE k \in 1..Len(rs) :
                      /\ \A m \in 1..Len(rs) : rs[k].index <= rs[m].index
                      /\ \A m \in 1..(k - 1) : rs[m].index # rs[k].index
         IN  <<rs[k]>> \o Ordered(SubSeq(rs, 1, k - 1) \o SubSeq(rs, k + 1, Len(rs)))

RECURSIVE JoinText(_, _)
\* sep.join(texts) on strings
JoinText(texts, sep) ==
    IF texts = <<>> THEN ""
    ELSE IF Len(texts) = 1 THEN texts[1]
    ELSE texts[1] \o sep \o JoinText(Tail(texts), sep)

\* gather that keeps only the results of the segments that got text
GatheredSuccesses(t) ==
    LET all == [k \in 1..Len(segments) |-> t[k - 1]]
        good == SelectSeq(all, LAMBDA x : x.final.kind = "text")
    IN  [k \in 1..Len(good) |-> good[k].result]

\* asyncio.gather(*tasks): the results in the order of the tasks
Gathered(t) == [k \in 1..Len(segments) |-> t[k - 1].result]

\* "\n\n".join(r["text"] for r in ordered)
FullText(rs) ==
    LET ordered == Ordered(rs)
    IN  JoinText([k \in 1..Len(ordered) |-> ordered[k].text], NL \o NL)

\* every task is done: gather returns, transcribe_file returns
Gather ==
    /\ pc = "gather"
    /\ \A i \in Indices : task[i].pc = "done"
    /\ results' = Gathered(task)
    /\ outcome' = [returned |-> TRUE, full_text |-> FullText(results'),
                   segments |-> segments]
    /\ pc' = "returned"
    /\ UNCHANGED <<not_pipeline, args, work_dir, segments, timing, gate, splits>>

Next ==
    \/ Split
    \/ SplitNotFound
    \/ SplitRaises
    \/ Bypass
    \/ Discover
    \/ Probe
    \/ Spawn
    \/ \E i \in Indices : Start(i)
    \/ \E i \in Indices : Resume(i)
    \/ \E i \in Indices : CallRaises(i)
    \/ \E i \in Indices : StreamRaises(i)
    \/ \E i \in Indices : StreamEnds(i)
    \/ \E i \in Indices : SleepDone(i)
    \/ Gather

Spec == Init /\ [][Next]_vars

\* the steps the event loop takes by itself once they are ready: those of
\* transcribe_file before the tasks, the entry of a task into the gate, the
\* resumption of a woken waiter, and the end of a backoff sleep
Scheduled ==
    \/ Split
    \/ SplitNotFound
    \/ SplitRaises
    \/ Bypass
    \/ Discover
    \/ Probe
    \/ Spawn
    \/ \E i \in Indices : Start(i)
    \/ \E i \in Indices : Resume(i)
    \/ \E i \in Indices : SleepDone(i)

\* a segment is inside an adapter call: the call was made, its stream has
\* neither ended nor raised
CallPending == \E i \in DOMAIN task : task[i].pc = "attempt"

\* every task is done and gather has not returned yet
GatherReady == pc = "gather" /\ \A i \in Indices : task[i].pc = "done"

\* the event loop runs a step that is ready; every adapter call comes to an
\* end, by raising or by the end of its stream, so no call stays pending for
\* ever; and gather returns once every task is done
FairSpec == Spec /\ WF_vars(Scheduled) /\ []<>~CallPending /\ []<>~GatherReady

(* ------------- the retry loop over streams that raise late -------------- *)
\* transcribe_file over segment files that are there already, one segment
\* at a time
RetryInit ==
    /\ Init
    /\ bypass_split
    /\ max_concurrency = 1
    /\ SourceName \notin work_dir

RetryNext ==
    \/ Bypass
    \/ Discover
    \/ Probe
    \/ Spawn
    \/ \E i \in Indices : Start(i)
    \/ \E i \in Indices : Resume(i)
    \/ \E i \in Indices : CallRaises(i)
    \/ \E i \in Indices : StreamBreaks(i)
    \/ \E i \in Indices : StreamEnds(i)
    \/ \E i \in Indices : SleepDone(i)
    \/ Gather

RetrySpec == RetryInit /\ [][RetryNext]_vars

(* -------------------------- split_mp3_by_size -------------------------- *)
\* the inputs tried: sizes and ceilings in bytes, bit rates in bits per second
SourceSizes == { 30, 40, 41, 200 }

CeilingValues == { 20, 40, 100 }

FallbackValues == { 10, 60 }

SourceContents == { "ID3a", "ID3b" }

\* what ffprobe can print for format=bit_rate, as int(out) reads it
BitrateValues == { -8, 0, 8, 12, 16 }

\* the largest number of files one ffmpeg split is let write
MaxPieces == 2

\* out_pattern, the file part: seg%03d.mp3
OutPattern == <<"s", "e", "g", "%", "0", "3", "d", ".", "m", "p", "3">>

RECURSIVE Replace(_, _, _)
\* str.replace(old, new) on character sequences, for a non-empty old
Replace(cs, old, new) ==
    IF Len(cs) < Len(old) THEN cs
    ELSE IF SubSeq(cs, 1, Len(old)) = old
         THEN new \o Replace(SubSeq(cs, Len(old) + 1, Len(cs)), old, new)
         ELSE <<Head(cs)>> \o Replace(Tail(cs), old, new)

\* single_out = out_pattern.replace("%03d", "000")
SingleOut == Replace(OutPattern, <<"%", "0", "3", "d">>, <<"0", "0", "0">>)

\* transcribe_file is not running
PipelineIdle ==
    /\ bypass_split = FALSE
    /\ max_concurrency = 0
    /\ max_segment_retries = 0
    /\ seg_seconds = 0
    /\ work_dir = {}
    /\ pc = "idle"
    /\ segments = <<>>
    /\ probed = <<>>
    /\ durations = <<>>
    /\ starts = <<>>
    /\ ends = <<>>
    /\ sem = NoSem
    /\ task = <<>>
    /\ results = <<>>
    /\ overtaken = FALSE
    /\ replaced = FALSE
    /\ splits = 0
    /\ outcome = NoOutcome

\* split_mp3_by_size(mp3_path, out_pattern, max_segment_size, fallback_seg_seconds)
\* is called
SegmenterInit ==
    /\ PipelineIdle
    /\ FunctionsIdle
    /\ RunnerIdle
    /\ source \in [exists : BOOLEAN, size : SourceSizes, content : SourceContents]
    /\ max_segment_size \in CeilingValues
    /\ fallback_seg_seconds \in FallbackValues
    /\ seg_pc = "start"
    /\ bitrate_bits = NoBitrate
    /\ duration_target = 0
    /\ probes = 0
    /\ ffmpeg = <<>>
    /\ written = {}
    /\ raised = ""

\* the smaller and the larger of two numbers: Python's min and max
Min(a, b) == IF a <= b THEN a ELSE b

Max(a, b) == IF a >= b THEN a ELSE b

\* SAFETY = 0.9, as the fraction SafetyNum / SafetyDen
SafetyNum == 9

SafetyDen == 10

\* the lower clamp of the duration, in seconds
MinDuration == 30

\* a strict test: raw_size < max_segment_size
FitsStrictly(raw_size, ceiling) == raw_size < ceiling

\* raw_size <= max_segment_size: no split is needed
Fits(raw_size, ceiling) == raw_size <= ceiling

\* bitrate_bits and bitrate_bits > 0
BitrateKnown(b) == b.set /\ b.val # 0 /\ b.val > 0

\* int((max_segment_size * SAFETY) / (bitrate_bits / 8.0)) for a bit rate > 0.
\* The floats give the floor of the exact quotient 0.9 * 8 * ceiling / bits for
\* every ceiling below 2^40 bytes.
EstimatedDuration(ceiling, bits) == (ceiling * SafetyNum * 8) \div (SafetyDen * bits)

\* the clamp applied the other way round: max(30, min(fallback, d))
ClampUpperFirst(d, fallback) == Max(MinDuration, Min(fallback, d))

\* the clamp: max(30, d), then min(fallback_seg_seconds, that)
Clamp(d, fallback) == Min(fallback, Max(MinDuration, d))

\* a fallback that is clamped from below as well
DurationTargetClampsFallback(ceiling, b, fallback) ==
    IF BitrateKnown(b) THEN Clamp(EstimatedDuration(ceiling, b.val), fallback)
    ELSE Max(MinDuration, fallback)

\* duration_target, from the bit rate if it is known, else the fallback
DurationTarget(ceiling, b, fallback) ==
    IF BitrateKnown(b) THEN Clamp(EstimatedDuration(ceiling, b.val), fallback)
    ELSE fallback

\* the source is not there: raise FileNotFoundError(mp3_path)
SourceMissing ==
    /\ seg_pc = "start"
    /\ ~source.exists
    /\ raised' = "FileNotFoundError"
    /\ seg_pc' = "raised"
    /\ UNCHANGED <<not_segmenter, source, max_segment_size, fallback_seg_seconds,
                   bitrate_bits, duration_target, probes, ffmpeg, written>>

\* the source fits: shutil.copyfile(mp3_path, single_out), return
CopySingle ==
    /\ seg_pc = "start"
    /\ source.exists
    /\ Fits(source.size, max_segment_size)
    /\ written' = written \cup { [name |-> SingleOut, content |-> source.content] }
    /\ seg_pc' = "returned"
    /\ UNCHANGED <<not_segmenter, source, max_segment_size, fallback_seg_seconds,
                   bitrate_bits, duration_target, probes, ffmpeg, raised>>

\* the source fits and shutil.copyfile raises
CopyRaises ==
    /\ seg_pc = "start"
    /\ source.exists
    /\ Fits(source.size, max_segment_size)
    /\ raised' = "OSError"
    /\ seg_pc' = "raised"
    /\ UNCHANGED <<not_segmenter, source, max_segment_size, fallback_seg_seconds,
                   bitrate_bits, duration_target, probes, ffmpeg, written>>

\* the source is too large and ffprobe printed a number: _get_bitrate_bits returns
\* int(out), and duration_target is set from it
ProbeAnswers ==
    /\ seg_pc = "start"
    /\ source.exists
    /\ ~Fits(source.size, max_segment_size)
    /\ \E bits \in BitrateValues : bitrate_bits' = [set |-> TRUE, val |-> bits]
    /\ probes' = probes + 1
    /\ duration_target' =
           DurationTarget(max_segment_size, bitrate_bits', fallback_seg_seconds)
    /\ seg_pc' = "split"
    /\ UNCHANGED <<not_segmenter, source, max_segment_size, fallback_seg_seconds, ffmpeg,
                   written, raised>>

\* the source is too large and ffprobe failed or printed no number:
\* _get_bitrate_bits returns None, and duration_target is the fallback
ProbeFails ==
    /\ seg_pc = "start"
    /\ source.exists
    /\ ~Fits(source.size, max_segment_size)
    /\ bitrate_bits' = NoBitrate
    /\ probes' = probes + 1
    /\ duration_target' =
           DurationTarget(max_segment_size, bitrate_bits', fallback_seg_seconds)
    /\ seg_pc' = "split"
    /\ UNCHANGED <<not_segmenter, source, max_segment_size, fallback_seg_seconds, ffmpeg,
                   written, raised>>

\* ffmpeg -f segment -segment_time str(duration_target) -c copy out_pattern
\* succeeds and has written its pieces
ExternalSplit ==
    /\ seg_pc = "split"
    /\ ffmpeg' = Append(ffmpeg, duration_target)
    /\ \E n \in 1..MaxPieces :
          written' = written \cup { [name |-> SegName(k), content |-> "piece"] :
                                      k \in 0..(n - 1) }
    /\ seg_pc' = "returned"
    /\ UNCHANGED <<not_segmenter, source, max_segment_size, fallback_seg_seconds,
                   bitrate_bits, duration_target, probes, raised>>

\* the same ffmpeg run exits non-zero: check_call raises CalledProcessError
ExternalSplitRaises ==
    /\ seg_pc = "split"
    /\ ffmpeg' = Append(ffmpeg, duration_target)
    /\ raised' = "CalledProcessError"
    /\ seg_pc' = "raised"
    /\ UNCHANGED <<not_segmenter, source, max_segment_size, fallback_seg_seconds,
                   bitrate_bits, duration_target, probes, written>>

SegmenterNext ==
    \/ SourceMissing
    \/ CopySingle
    \/ CopyRaises
    \/ ProbeAnswers
    \/ ProbeFails
    \/ ExternalSplit
    \/ ExternalSplitRaises

SegmenterSpec == SegmenterInit /\ [][SegmenterNext]_vars

(* ------------------------- _format_ts, called alone -------------------- *)
\* the largest whole number of seconds tried: one past 99:59:59
MaxSeconds == 360000

\* _format_ts(float(t)) is called for a whole number of seconds t
FormatInit ==
    /\ PipelineIdle
    /\ SegmenterIdle
    /\ RunnerIdle
    /\ ts_call \in { [fn |-> "_format_ts", seconds |-> t, returned |-> FALSE, out |-> <<>>] :
                        t \in 0..MaxSeconds }
    /\ window_call = NoCall
    /\ sanitize_call = NoCall

\* the call returns its string, kept as its characters
FormatTs ==
    /\ ts_call.fn = "_format_ts"
    /\ ~ts_call.returned
    /\ ts_call' = [ts_call EXCEPT !.returned = TRUE,
                                  !.out = FormatTsChars(2 * ts_call.seconds)]
    /\ UNCHANGED <<not_functions, window_call, sanitize_call>>

FormatNext == FormatTs

FormatSpec == FormatInit /\ [][FormatNext]_vars

(* ------------------ Config.within_schedule_window ---------------------- *)
\* label_for: DayLabels[k + 1] is the label of weekday k, Monday being 0
DayLabels ==
    << <<"M", "O", "N">>, <<"T", "U", "E">>, <<"W", "E", "D">>, <<"T", "H", "U">>,
       <<"F", "R", "I">>, <<"S", "A", "T">>, <<"S", "U", "N">> >>

Weekdays == 0..6

\* the hours of the day now.hour is drawn from, and the window bounds tried
HourValues == { 0, 7, 8, 12, 22, 23 }

WindowHours == { 8, 22 }

Label(k) == DayLabels[k + 1]

\* the values of schedule_days tried: every label alone, every pair A-B, a
\* value of three parts, and values with a part that is no label
ScheduleDaysValues ==
    { Label(a) : a \in Weekdays }
        \cup { Label(a) \o <<"-">> \o Label(b) : a, b \in Weekdays }
        \cup { Label(4) \o <<"-">> \o Label(6) \o <<"-">> \o Label(0),
               <<>>,
               <<"s", "u", "n", "-", "s", "a", "t">>,
               Label(6) \o <<"-">>,
               Label(0) \o <<"-", "F", "U", "N">> }

RECURSIVE SplitOn(_, _)
\* str.split(sep) for a one-character sep: always at least one part
SplitOn(cs, sep) ==
    IF \A k \in 1..Len(cs) : cs[k] # sep THEN <<cs>>
    ELSE LET at == CHOOSE k \in 1..Len(cs) :
                       cs[k] = sep /\ \A j \in 1..(k - 1) : cs[j] # sep
         IN  <<SubSeq(cs, 1, at - 1)>> \o SplitOn(SubSeq(cs, at + 1, Len(cs)), sep)

\* label in idx_for
IsLabel(label) == \E k \in Weekdays : Label(k) = label

\* idx_for[label]
IdxFor(label) == CHOOSE k \in Weekdays : Label(k) = label

\* the day range without the wrap: set(range(start_idx, end_idx + 1))
AllowedDaysNoWrap(start_idx, end_idx) == start_idx..end_idx

\* allowed_days: the range, or the two ranges of a range that wraps
AllowedDays(start_idx, end_idx) ==
    IF start_idx <= end_idx THEN start_idx..end_idx
    ELSE (start_idx..6) \cup (0..end_idx)

\* the property, for the fields c of the Config and the local time now
within_schedule_window(c, now) ==
    IF ~c.time_window_enabled THEN TRUE
    ELSE LET parts == SplitOn(c.schedule_days, "-")
             start_label == parts[1]
             end_label == IF Len(parts) = 1 THEN parts[1] ELSE parts[Len(parts)]
         IN  IF ~IsLabel(start_label) \/ ~IsLabel(end_label) THEN TRUE
             ELSE IF now.weekday \notin AllowedDays(IdxFor(start_label), IdxFor(end_label))
                  THEN FALSE
             ELSE IF ~(c.schedule_start_hour <= now.hour
                           /\ now.hour <= c.schedule_end_hour)
                  THEN FALSE
             ELSE TRUE

\* the property is read at some local time
ScheduleInit ==
    /\ PipelineIdle
    /\ SegmenterIdle
    /\ RunnerIdle
    /\ ts_call = NoCall
    /\ window_call \in
           [fn : {"within_schedule_window"},
            c : [time_window_enabled : BOOLEAN, schedule_days : ScheduleDaysValues,
                 schedule_start_hour : WindowHours, schedule_end_hour : WindowHours],
            now : [weekday : Weekdays, hour : HourValues],
            returned : {FALSE}, out : {FALSE}]
    /\ sanitize_call = NoCall

\* the property returns
WithinScheduleWindow ==
    /\ window_call.fn = "within_schedule_window"
    /\ ~window_call.returned
    /\ window_call' =
           [window_call EXCEPT !.returned = TRUE,
                               !.out = within_schedule_window(window_call.c,
                                                              window_call.now)]
    /\ UNCHANGED <<not_functions, ts_call, sanitize_call>>

ScheduleNext == WithinScheduleWindow

ScheduleSpec == ScheduleInit /\ [][ScheduleNext]_vars

(* --------------------------- sanitize_filename ------------------------- *)
\* the longest name tried character by character
MaxNameLen == 3

\* base[:200]
MaxLength == 200

\* the class [<>:"/\\|?*] of the reserved characters
Reserved == { "<", ">", ":", "\"", "/", "\\", "|", "?", "*" }

\* the class [\x00-\x1F\x7F], as far as a string here can hold it
Control == { "\t", "\n", "\r", "\f" }

\* the default replacement
DefaultReplacement == "_"

\* the characters names are made of: a letter, the replacement, reserved
\* characters (both separators among them), a control character and the two
\* characters strip(' .') removes
NameChars == { "a", "_", ":", "*", "/", "\\", "\t", " ", "." }

\* the Python product cs * n
Repeat(cs, n) == [k \in 1..(n * Len(cs)) |-> cs[((k - 1) % Len(cs)) + 1]]

ShortNames == UNION { [1..n -> NameChars] : n \in 0..MaxNameLen }

\* names longer than the limit: a pattern of one or two characters, repeated
LongNames ==
    { Repeat(pat, (MaxLength \div Len(pat)) + 1) :
        pat \in UNION { [1..n -> NameChars] : n \in {1, 2} } }

\* cs.split(sep)[-1]: what follows the last sep, all of cs if there is none
SplitLast(cs, sep) ==
    LET seps == { k \in 1..Len(cs) : cs[k] = sep }
    IN  IF seps = {} THEN cs
        ELSE SubSeq(cs, (CHOOSE k \in seps : \A j \in seps : j <= k) + 1, Len(cs))

\* no character: what a dropped character is marked with
Dropped == ""

\* re.sub('[class]+', new, cs) for a new of one character: the first character
\* of every maximal run of class becomes new, the rest of the run goes
SubRuns(cs, class, new) ==
    LET marked == [k \in 1..Len(cs) |->
                      IF cs[k] \notin class THEN cs[k]
                      ELSE IF k = 1 \/ cs[k - 1] \notin class THEN new
                      ELSE Dropped]
    IN  SelectSeq(marked, LAMBDA c : c # Dropped)

\* re.sub('c{2,}', c, cs): a run of two or more c becomes one c, a run of one
\* stays, so every maximal run of c becomes one c
Collapse(cs, c) == SubRuns(cs, {c}, c)

\* str.strip(chars): from the first to the last character outside chars
StripChars(cs, class) ==
    LET kept == { k \in 1..Len(cs) : cs[k] \notin class }
    IN  IF kept = {} THEN <<>>
        ELSE SubSeq(cs, CHOOSE k \in kept : \A j \in kept : k <= j,
                        CHOOSE k \in kept : \A j \in kept : j <= k)

FileChars == <<"f", "i", "l", "e">>

\* the steps up to the fallback: path components, reserved characters,
\* control characters, repeated replacements, strip(' .')
Cleaned(name, replacement) ==
    LET base1 == SplitLast(SplitLast(name, "/"), "\\")
        base2 == SubRuns(base1, Reserved, replacement)
        base3 == SelectSeq(base2, LAMBDA c : c \notin Control)
        base4 == Collapse(base3, replacement)
    IN  StripChars(base4, {" ", "."})

\* the function without the fallback to 'file'
SanitizeNoFallback(name, replacement) ==
    LET base == Cleaned(name, replacement)
    IN  SubSeq(base, 1, Min(Len(base), MaxLength))

sanitize_filename(name, replacement) ==
    LET base5 == Cleaned(name, replacement)
        base == IF base5 = <<>> \/ { base5[k] : k \in 1..Len(base5) } = {replacement}
                THEN FileChars
                ELSE base5
    IN  SubSeq(base, 1, Min(Len(base), MaxLength))

\* sanitize_filename(name) is called
SanitizeInit ==
    /\ PipelineIdle
    /\ SegmenterIdle
    /\ RunnerIdle
    /\ ts_call = NoCall
    /\ window_call = NoCall
    /\ sanitize_call \in
           [fn : {"sanitize_filename"}, name : ShortNames \cup LongNames,
            returned : {FALSE}, out : {<<>>}]

\* the call returns
SanitizeFilename ==
    /\ sanitize_call.fn = "sanitize_filename"
    /\ ~sanitize_call.returned
    /\ sanitize_call' =
           [sanitize_call EXCEPT
               !.returned = TRUE,
               !.out = sanitize_filename(sanitize_call.name, DefaultReplacement)]
    /\ UNCHANGED <<not_functions, ts_call, window_call>>

SanitizeNext == SanitizeFilename

SanitizeSpec == SanitizeInit /\ [][SanitizeNext]_vars

(* -------------------------- process_drive_files ------------------------ *)
\* the largest number of audio files the Drive folder lists
MaxFiles == 2

\* the Config fields the run reads before the loop, each as set or not set;
\* within_schedule_window is what the property answers when the run starts
ConfigValues ==
    [within_schedule_window : BOOLEAN, skip_drive : BOOLEAN, drive_folder_id : BOOLEAN,
     runpod_api_key : BOOLEAN, runpod_endpoint_id : BOOLEAN]

\* the listing of n files: the files are named by their position
Listing(n) == [k \in 1..n |-> k]

\* process_drive_files(cfg) is called
RunnerInit ==
    /\ PipelineIdle
    /\ SegmenterIdle
    /\ FunctionsIdle
    /\ cfg \in ConfigValues
    /\ run_pc = "start"
    /\ files = <<>>
    /\ file_index = 0
    /\ effects = <<>>
    /\ summaries = <<>>
    /\ ret = NoReturn

\* a call that left the process: to Drive, ffmpeg, the model service or SMTP
Effect(op, f, ok) == [op |-> op, file |-> f, ok |-> ok]

\* return {"status": value} / {"error": value, ...}
Status(value) == [kind |-> "status", value |-> value]

Error(value) == [kind |-> "error", value |-> value]

\* the function returns r: nothing else changes
Returns(r) ==
    /\ ret' = r
    /\ run_pc' = "returned"
    /\ UNCHANGED <<not_runner, cfg, files, file_index, effects, summaries>>

\* if not cfg.within_schedule_window: return the status
OutsideWindow ==
    /\ run_pc = "start"
    /\ ~cfg.within_schedule_window
    /\ Returns(Status("outside schedule window"))

\* the skip_drive test made before the schedule test
SkipDriveFirst ==
    /\ run_pc = "start"
    /\ cfg.skip_drive
    /\ Returns(Status("no audio files found"))

\* if cfg.skip_drive: return the status of an empty folder
SkipDrive ==
    /\ run_pc = "start"
    /\ cfg.within_schedule_window
    /\ cfg.skip_drive
    /\ Returns(Status("no audio files found"))

\* if not cfg.drive_folder_id: return the error
MissingFolderId ==
    /\ run_pc = "start"
    /\ cfg.within_schedule_window
    /\ ~cfg.skip_drive
    /\ ~cfg.drive_folder_id
    /\ Returns(Error("DRIVE_FOLDER_ID env var is required"))

\* the three tests pass and drive_service(...) returns or raises
AuthDrive ==
    /\ run_pc = "start"
    /\ cfg.within_schedule_window
    /\ ~cfg.skip_drive
    /\ cfg.drive_folder_id
    /\ \E ok \in BOOLEAN :
          /\ effects' = Append(effects, Effect("drive_service", 0, ok))
          /\ IF ok THEN run_pc' = "list" /\ ret' = ret
             ELSE run_pc' = "returned" /\ ret' = Error("auth_drive_failed")
    /\ UNCHANGED <<not_runner, cfg, files, file_index, summaries>>

\* list_audio_files(...) raises, or returns a list: an empty list returns the
\* status
ListAudioFiles ==
    /\ run_pc = "list"
    /\ \/ /\ effects' = Append(effects, Effect("list_audio_files", 0, FALSE))
          /\ files' = files
          /\ run_pc' = "returned"
          /\ ret' = Error("drive_list_failed")
       \/ \E n \in 0..MaxFiles :
             /\ effects' = Append(effects, Effect("list_audio_files", 0, TRUE))
             /\ files' = Listing(n)
             /\ IF n = 0
                THEN run_pc' = "returned" /\ ret' = Status("no audio files found")
                ELSE run_pc' = "folder" /\ ret' = ret
    /\ UNCHANGED <<not_runner, cfg, file_index, summaries>>

\* get_or_create_processed_folder(...) returns an id or None
ProcessedFolder ==
    /\ run_pc = "folder"
    /\ \E ok \in BOOLEAN :
          /\ effects' = Append(effects, Effect("processed_folder", 0, ok))
          /\ IF ok THEN run_pc' = "load" /\ ret' = ret
             ELSE run_pc' = "returned" /\ ret' = Error("drive_processed_folder_failure")
    /\ UNCHANGED <<not_runner, cfg, files, file_index, summaries>>

\* a load_model that goes on without the credentials
LoadModelLenient ==
    /\ run_pc = "load"
    /\ \E ok \in BOOLEAN :
          /\ effects' = Append(effects, Effect("load_model", 0, ok))
          /\ IF ok
             THEN run_pc' = "download" /\ file_index' = 1 /\ ret' = ret
             ELSE run_pc' = "returned" /\ file_index' = file_index
                      /\ ret' = Error("model_load_failed")
    /\ UNCHANGED <<not_runner, cfg, files, summaries>>

\* load_model(...) raises when a credential is missing, and can raise for the
\* language configuration; else the loop starts at the first file
LoadModel ==
    /\ run_pc = "load"
    /\ \E ok \in BOOLEAN :
          /\ ~(cfg.runpod_api_key /\ cfg.runpod_endpoint_id) => ~ok
          /\ effects' = Append(effects, Effect("load_model", 0, ok))
          /\ IF ok
             THEN run_pc' = "download" /\ file_index' = 1 /\ ret' = ret
             ELSE run_pc' = "returned" /\ file_index' = file_index
                      /\ ret' = Error("model_load_failed")
    /\ UNCHANGED <<not_runner, cfg, files, summaries>>

\* the summary of a file that failed, and of a file that was processed
Failed(f, error) ==
    [id |-> f, keys |-> {"id", "name", "error"}, error |-> error, email_sent |-> FALSE]

Processed(f, email_sent) ==
    [id |-> f, keys |-> {"id", "name", "segments", "email_sent", "balance"},
     error |-> "", email_sent |-> email_sent]

\* return {"processed": summaries, "total_files": len(summaries)}
ReturnsProcessed == [kind |-> "processed", value |-> "summaries"]

\* the total_files of that return: len(summaries)
TotalFiles == Len(summaries)

\* summaries.append(summary), then the next file, or the return after the last
Appends(summary) ==
    /\ summaries' = Append(summaries, summary)
    /\ IF file_index < Len(files)
       THEN run_pc' = "download" /\ file_index' = file_index + 1 /\ ret' = ret
       ELSE run_pc' = "returned" /\ file_index' = file_index /\ ret' = ReturnsProcessed

\* the next step of the same file
GoesOn(stage) ==
    /\ run_pc' = stage
    /\ UNCHANGED <<file_index, summaries, ret>>

\* a failed download that goes on to the next file without a summary
DownloadFailureSilent ==
    /\ run_pc = "download"
    /\ LET f == files[file_index]
       IN  \E ok \in BOOLEAN :
              /\ effects' = Append(effects, Effect("download_file", f, ok))
              /\ IF ok THEN GoesOn("convert")
                 ELSE /\ summaries' = summaries
                      /\ IF file_index < Len(files)
                         THEN run_pc' = "download" /\ file_index' = file_index + 1
                                  /\ ret' = ret
                         ELSE run_pc' = "returned" /\ file_index' = file_index
                                  /\ ret' = ReturnsProcessed
    /\ UNCHANGED <<not_runner, cfg, files>>

\* download_file(...) for the file of the loop
Download ==
    /\ run_pc = "download"
    /\ LET f == files[file_index]
       IN  \E ok \in BOOLEAN :
              /\ effects' = Append(effects, Effect("download_file", f, ok))
              /\ IF ok THEN GoesOn("convert")
                 ELSE Appends(Failed(f, "download_failed"))
    /\ UNCHANGED <<not_runner, cfg, files>>

\* convert_to_mp3(...)
ConvertToMp3 ==
    /\ run_pc = "convert"
    /\ LET f == files[file_index]
       IN  \E ok \in BOOLEAN :
              /\ effects' = Append(effects, Effect("convert_to_mp3", f, ok))
              /\ IF ok THEN GoesOn("transcribe")
                 ELSE Appends(Failed(f, "conversion_failed"))
    /\ UNCHANGED <<not_runner, cfg, files>>

\* the parameters of transcribe_file: it takes no **kwargs
Parameters ==
    { "model", "mp3_full_path", "work_dir", "seg_seconds", "max_concurrency",
      "bypass_split", "splitter_fn", "max_segment_retries" }

\* the keywords of the call in the loop; model is passed by position
Keywords ==
    { "mp3_full_path", "work_dir", "seg_seconds", "max_concurrency", "bypass_split",
      "splitter_fn", "max_segment_retries", "max_payload_size", "max_split_depth" }

\* Python binds a call when every keyword names a parameter and every
\* parameter gets a value; otherwise the call raises TypeError
Binds(positional, keywords, parameters) ==
    /\ keywords \subseteq parameters
    /\ positional \cup keywords = parameters

\* what follows a transcribe_file that returned: the transcript is written,
\* the email is tried, the file is moved, the files of the work directory are
\* removed, the summary is appended
Delivers(f) ==
    \E email_sent \in BOOLEAN :
        /\ effects' = effects \o << Effect("transcribe_file", f, TRUE),
                                    Effect("write", f, TRUE),
                                    Effect("send_transcription_email", f, email_sent),
                                    Effect("move_file_to_folder", f, TRUE),
                                    Effect("remove_work_dir", f, TRUE) >>
        /\ Appends(Processed(f, email_sent))

\* a failed transcription that moves the file all the same
TranscribeFileMovesFailed ==
    /\ run_pc = "transcribe"
    /\ LET f == files[file_index]
       IN  /\ effects' = Append(effects, Effect("move_file_to_folder", f, TRUE))
           /\ Appends(Failed(f, "transcription_failed"))
    /\ UNCHANGED <<not_runner, cfg, files>>

\* await transcribe_file(model, mp3_full_path=..., ..., max_split_depth=...):
\* a call that does not bind raises TypeError before the body runs; a call
\* that binds returns, or raises what the splitter raised
TranscribeFile ==
    /\ run_pc = "transcribe"
    /\ LET f == files[file_index]
       IN  IF ~Binds({"model"}, Keywords, Parameters)
           THEN /\ effects' = effects
                /\ Appends(Failed(f, "transcription_failed"))
           ELSE \/ Delivers(f)
                \/ /\ effects' = Append(effects, Effect("transcribe_file", f, FALSE))
                   /\ Appends(Failed(f, "transcription_failed"))
    /\ UNCHANGED <<not_runner, cfg, files>>

RunnerNext ==
    \/ OutsideWindow
    \/ SkipDrive
    \/ MissingFolderId
    \/ AuthDrive
    \/ ListAudioFiles
    \/ ProcessedFolder
    \/ LoadModel
    \/ Download
    \/ ConvertToMp3
    \/ TranscribeFile

RunnerSpec == RunnerInit /\ [][RunnerNext]_vars

(* ------------------------------ the claims ----------------------------- *)
\* the segments that hold a permit of the gate: handed one and about to enter
\* transcribe_segment, or inside it (in an attempt or in a backoff sleep)
InFlight == { i \in DOMAIN task : task[i].pc \in {"woken", "attempt", "sleep"} }

\* the segment files work_dir holds
Matching == { f \in work_dir : MatchesPattern(f) }

Done(i) == i \in DOMAIN task /\ task[i].pc = "done"

\* segment i ended in real text / in a placeholder
GotText(i) == Done(i) /\ task[i].final.kind = "text"

GotPlaceholder(i) == Done(i) /\ task[i].final.kind # "text"

\* C1: with max_concurrency = k >= 1, at most k segments are inside
\* transcribe_segment in every reachable state.
C1_ConcurrencyCap ==
    max_concurrency >= 1 => Cardinality(InFlight) <= max_concurrency

\* a segment waits at the gate while k = 1 < N segments are admitted
C1_Witness ==
    /\ max_concurrency = 1
    /\ Len(segments) > max_concurrency
    /\ Cardinality(InFlight) = max_concurrency
    /\ \E i \in DOMAIN task : task[i].pc = "waiting"

\* C2: transcribe_file produces exactly one segment result per discovered
\* segment, text or placeholder, and returns a segment list of length N.
C2_OneResultPerSegment ==
    outcome.returned =>
        /\ Len(outcome.segments) = Cardinality(Matching)
        /\ Len(results) = Cardinality(Matching)
        /\ \A i \in 0..(Cardinality(Matching) - 1) :
              Cardinality({ k \in 1..Len(results) : results[k].index = i }) = 1

\* a returned run of two segments, one with text and one with a placeholder
C2_Witness ==
    /\ outcome.returned
    /\ Len(results) = 2
    /\ \E i, j \in DOMAIN task : GotText(i) /\ GotPlaceholder(j)

\* C3: full_text is the texts of segments 0..N-1 in index order, joined by a
\* blank line, whatever order the tasks completed in.
C3_IndexOrder ==
    (outcome.returned /\ segments # <<>>) =>
        outcome.full_text =
            JoinText([k \in 1..Len(segments) |-> task[k - 1].result.text], "\n\n")

\* a returned run in which segment 1 finished before segment 0 and differs
C3_Witness ==
    /\ outcome.returned
    /\ overtaken
    /\ Len(segments) = 2
    /\ task[0].result.text # task[1].result.text

RECURSIVE SumTo(_, _)
\* d_0 + ... + d_(n-1)
SumTo(ds, n) == IF n = 0 THEN 0 ELSE SumTo(ds, n - 1) + ds[n]

\* the reason a placeholder shows for the message of the last failure
ReasonOf(msg) == IF msg = "" THEN "unknown" ELSE msg

\* what segment i contributes, from the durations and from what the adapter
\* did last for it, and from nothing else
ReferenceText(i) ==
    IF task[i].final.kind = "text" THEN task[i].final.text
    ELSE "[Transcription failed - " \o _format_ts(SumTo(durations, i)) \o " - "
             \o _format_ts(SumTo(durations, i + 1)) \o " Reason: "
             \o ReasonOf(task[i].final.text) \o "]"

\* C4: the returned (full_text, segments) is a function of the segment files,
\* the durations and the adapter's outcomes alone, so two runs that agree on
\* these return the same, whatever the schedule and max_concurrency.
C4_Deterministic ==
    outcome.returned =>
        /\ outcome.segments = Sorted(Matching)
        /\ outcome.full_text =
               JoinText([k \in 1..Cardinality(Matching) |-> ReferenceText(k - 1)], "\n\n")

\* a returned run of two segments, one retried, that finished out of index order
C4_Witness ==
    /\ outcome.returned
    /\ overtaken
    /\ max_concurrency = 2
    /\ \E i \in DOMAIN task : task[i].calls = 2

\* text has the form of a placeholder for the time range of segment i
IsPlaceholder(i, text) ==
    LET range == _format_ts(starts[i + 1]) \o " - " \o _format_ts(ends[i + 1])
    IN  \E reason \in (ErrorMessages \ {""}) \cup {"unknown", "empty transcription"} :
            text = "[Transcription failed - " \o range \o " Reason: " \o reason \o "]"

\* C5: when the adapter call raises, its stream raises or it yields only
\* whitespace, on every attempt, transcribe_segment returns {index, placeholder};
\* transcribe_file raises only where the splitter raised, before any task.
C5_FailuresAbsorbed ==
    /\ \A i \in DOMAIN task :
          /\ task[i].fails = max_segment_retries + 1 => GotPlaceholder(i)
          /\ GotPlaceholder(i) =>
                /\ task[i].result.index = i
                /\ IsPlaceholder(i, task[i].result.text)
    /\ pc = "raised" => (task = <<>> /\ ~sem.created /\ splits = 1)

\* a run that returned although one segment's adapter raised to the end and
\* another's yielded only whitespace to the end
C5_Witness ==
    /\ outcome.returned
    /\ \E i, j \in DOMAIN task :
          /\ GotPlaceholder(i) /\ task[i].final.kind = "raised"
          /\ GotPlaceholder(j) /\ task[j].final.kind = "empty"

\* C6: when the first k <= R attempts fail and attempt k+1 yields text,
\* transcribe_segment returns that text after exactly k+1 adapter calls, and no
\* call follows the successful attempt.
C6_StopsAtFirstSuccess ==
    \A i \in DOMAIN task :
        /\ task[i].final.kind = "text" => Done(i)
        /\ GotText(i) =>
              /\ task[i].result = [index |-> i, text |-> task[i].final.text]
              /\ task[i].calls = task[i].fails + 1
              /\ task[i].fails <= max_segment_retries

\* a segment that failed once and then got text, with R = 1
C6_Witness ==
    \E i \in DOMAIN task : GotText(i) /\ task[i].fails = 1 /\ task[i].calls = 2

\* C7: when every attempt fails, exactly R+1 adapter calls are made before the
\* placeholder, never more and never fewer.
C7_ExactlyAllAttempts ==
    \A i \in DOMAIN task :
        /\ task[i].calls <= max_segment_retries + 1
        /\ GotPlaceholder(i) =>
              /\ task[i].calls = max_segment_retries + 1
              /\ task[i].fails = task[i].calls

\* a segment that got its placeholder after two calls, with R = 1
C7_Witness ==
    \E i \in DOMAIN task :
        GotPlaceholder(i) /\ max_segment_retries = 1 /\ task[i].calls = 2

\* every segment's adapter raised, with no retry allowed
AlwaysRaisedNoRetry ==
    /\ outcome.returned
    /\ segments # <<>>
    /\ max_segment_retries = 0
    /\ \A i \in DOMAIN task : task[i].final.kind = "raised"

\* two segments of 10 s whose adapter raised "boom"
TwoTenSecondBooms ==
    /\ AlwaysRaisedNoRetry
    /\ durations = <<20, 20>>
    /\ \A i \in DOMAIN task : task[i].final.text = "boom"

TwoBoomsText ==
    "[Transcription failed - 00:00:00 - 00:00:10 Reason: boom]" \o "\n\n"
        \o "[Transcription failed - 00:00:10 - 00:00:20 Reason: boom]"

\* C8 as stated: with R = 0 and an adapter that always raises, segment i
\* contributes "[Transcription failed - <start_i> - <end_i> Reason: <message>]"
\* with the raised message as reason.
C8_ReasonIsMessage ==
    AlwaysRaisedNoRetry =>
        /\ \A i \in DOMAIN task :
              task[i].result.text =
                  "[Transcription failed - " \o _format_ts(starts[i + 1]) \o " - "
                      \o _format_ts(ends[i + 1]) \o " Reason: " \o task[i].final.text
                      \o "]"
        /\ TwoTenSecondBooms => outcome.full_text = TwoBoomsText

\* C8 amended: the reason is the raised message, or "unknown" when the message
\* is empty; two segments of 10 s and the message boom give the two placeholders
\* for 00:00:00-00:00:10 and 00:00:10-00:00:20 joined by a blank line.
C8_ReasonIsMessageOrUnknown ==
    AlwaysRaisedNoRetry =>
        /\ \A i \in DOMAIN task :
              task[i].result.text =
                  "[Transcription failed - " \o _format_ts(starts[i + 1]) \o " - "
                      \o _format_ts(ends[i + 1]) \o " Reason: "
                      \o ReasonOf(task[i].final.text) \o "]"
        /\ TwoTenSecondBooms => outcome.full_text = TwoBoomsText

\* the example run: two segments of 10 s, R = 0, the adapter raises boom
C8_Witness == TwoTenSecondBooms /\ Len(segments) = 2

\* C9: segment 0 starts at 0, start_i = end_(i-1), end_i = start_i + d_i, and
\* start_i is the sum of the durations before i.
C9_CumulativeTimes ==
    pc \in {"spawn", "gather", "returned"} =>
        /\ Len(starts) = Len(segments)
        /\ Len(ends) = Len(segments)
        /\ Len(durations) = Len(segments)
        /\ segments # <<>> => starts[1] = 0
        /\ \A k \in 1..Len(segments) :
              /\ k > 1 => starts[k] = ends[k - 1]
              /\ ends[k] = starts[k] + durations[k]
              /\ starts[k] = SumTo(durations, k - 1)

\* two segments probed, of 10.5 s and of the nominal 10 s
C9_Witness ==
    /\ pc = "gather"
    /\ durations = <<21, 20>>
    /\ starts = <<0, 21>>
    /\ ends = <<21, 41>>

\* C10: when no file of work_dir matches the pattern, transcribe_file returns
\* ("", []) without raising, without creating the gate and without any adapter
\* call.
C10_NoSegments ==
    (Matching = {} /\ pc \notin {"start", "discover"}) =>
        /\ pc = "raised" => (~bypass_split /\ splits = 1 /\ segments = <<>>)
        /\ pc # "raised" =>
              /\ pc = "returned"
              /\ outcome = [returned |-> TRUE, full_text |-> "", segments |-> <<>>]
              /\ ~sem.created
              /\ task = <<>>

\* a run over a work_dir that holds only the source file, returned
C10_Witness ==
    /\ outcome.returned
    /\ Matching = {}
    /\ work_dir # {}

\* the text of the placeholder of segment i with the given reason
PlaceholderWith(i, reason) ==
    "[Transcription failed - " \o _format_ts(starts[i + 1]) \o " - "
        \o _format_ts(ends[i + 1]) \o " Reason: " \o reason \o "]"

\* the reason the last attempt alone gives: its message if it raised one,
\* "unknown" if it raised none, "empty transcription" if it yielded no text
FinalReason(i) ==
    IF task[i].final.kind = "empty" THEN "empty transcription"
    ELSE IF task[i].final.text = "" THEN "unknown"
    ELSE task[i].final.text

\* C11: the reason in the placeholder of a segment is that of its final attempt
\* only: the message it raised, "empty transcription" if it yielded only
\* whitespace, "unknown" if there is no message; never an earlier attempt's.
C11_ReasonOfFinalAttempt ==
    \A i \in DOMAIN task :
        GotPlaceholder(i) =>
            /\ task[i].final.kind \in {"raised", "empty"}
            /\ task[i].result.text = PlaceholderWith(i, FinalReason(i))

\* the placeholder of a lone segment whose two attempts failed differently, the
\* last one by yielding only whitespace
C11_Witness ==
    /\ Len(segments) = 1
    /\ GotPlaceholder(0)
    /\ task[0].fails = 2
    /\ replaced
    /\ task[0].final.kind = "empty"

C13_EmptyIsFailure ==
    \A i \in DOMAIN task :
        /\ Done(i) => task[i].result.text # ""
        /\ task[i].final.kind = "empty" =>
               /\ task[i].final.text = "empty transcription"
               /\ task[i].fails >= 1
               /\ task[i].pc \in {"sleep", "attempt", "done"}
               /\ task[i].pc = "sleep" =>
                      /\ task[i].last_error = Some("empty transcription")
                      /\ task[i].fails = task[i].attempt
                      /\ task[i].sleeps[Len(task[i].sleeps)] = task[i].attempt
               /\ task[i].pc = "attempt" =>
                      /\ task[i].last_error = Some("empty transcription")
                      /\ task[i].attempt = task[i].fails + 1
                      /\ task[i].calls = task[i].fails + 1
               /\ task[i].pc = "done" =>
                      /\ task[i].fails = max_segment_retries + 1
                      /\ task[i].result.index = i
                      /\ task[i].result.text \notin StreamTexts

\* a segment in its second attempt after a first one that yielded only
\* whitespace and a backoff of 1 s
C13_Witness ==
    \E i \in DOMAIN task :
        /\ task[i].pc = "attempt"
        /\ task[i].attempt = 2
        /\ task[i].final.kind = "empty"
        /\ task[i].last_error = Some("empty transcription")
        /\ task[i].sleeps = <<1>>

\* C14: a segment that ended in a placeholder changes no other segment's
\* outcome: no segment is done without an adapter call, and when transcribe_file
\* returns every segment has been attempted and every segment j whose last
\* attempt gave text has that text as result j and as piece j of full_text.
C14_FailureContained ==
    (\E i \in DOMAIN task : GotPlaceholder(i)) =>
        /\ \A j \in DOMAIN task : Done(j) => task[j].calls >= 1
        /\ outcome.returned =>
               /\ \A j \in DOMAIN task :
                      /\ task[j].calls >= 1
                      /\ task[j].final.kind = "text" =>
                             results[j + 1] = [index |-> j, text |-> task[j].final.text]
               /\ outcome.full_text =
                      JoinText([k \in 1..Len(segments) |->
                                   IF task[k - 1].final.kind = "text"
                                   THEN task[k - 1].final.text
                                   ELSE PlaceholderWith(k - 1, FinalReason(k - 1))],
                               "\n\n")

\* a returned run through a gate of one permit in which segment 0 ended in a
\* placeholder and segment 1, admitted after it, got text
C14_Witness ==
    /\ outcome.returned
    /\ max_concurrency = 1
    /\ Len(segments) = 2
    /\ GotPlaceholder(0)
    /\ GotText(1)

\* C15: a segment holds one permit of the gate from before its first adapter
\* call until transcribe_segment has returned: the permits out are exactly
\* those of the segments in flight, a segment that has made a call is in flight
\* or done, a done segment has its result, and when transcribe_file returns
\* all max_concurrency permits are back and nobody waits.
C15_PermitHeld ==
    sem.created =>
        /\ sem.value >= 0
        /\ sem.value + Cardinality(InFlight) = max_concurrency
        /\ \A i \in DOMAIN task :
               /\ task[i].calls >= 1 => task[i].pc \in {"attempt", "sleep", "done"}
               /\ task[i].pc \in {"created", "waiting", "woken"} =>
                      (task[i].calls = 0 /\ task[i].result = NoResult)
               /\ task[i].pc \in {"attempt", "sleep"} => task[i].result = NoResult
               /\ Done(i) => task[i].result.index = i
        /\ outcome.returned =>
               (sem.value = max_concurrency /\ sem.waiters = <<>> /\ InFlight = {})

\* a returned run of two segments through a gate of one permit: both made
\* their calls, one after a wait, and the permit is back
C15_Witness ==
    /\ outcome.returned
    /\ max_concurrency = 1
    /\ Len(segments) = 2
    /\ sem.value = 1
    /\ \A i \in DOMAIN task : task[i].calls >= 1

\* the largest index a name seg%03d.mp3 of the pattern can carry
LastSegIndex == 999

\* the number the three digits of a segment name spell
SegNumber(f) ==
    LET value(c) == (CHOOSE k \in 1..10 : DigitChars[k] = c) - 1
    IN  100 * value(f[4]) + 10 * value(f[5]) + value(f[6])

\* among seg000.mp3 .. seg999.mp3 every name spells its index, matches the
\* pattern and sorts right before the name of the next index
LexOrderIsNumeric ==
    \A i \in 0..LastSegIndex :
        /\ MatchesPattern(SegName(i))
        /\ SegNumber(SegName(i)) = i
        /\ i < LastSegIndex =>
               /\ LexLess(SegName(i), SegName(i + 1))
               /\ ~LexLess(SegName(i + 1), SegName(i))

\* C16: the results of a run carry the indices 0..N-1, each once; segment i,
\* and so result i, belongs to the i-th discovered file name in lexicographic
\* order; and for the names seg000..seg999 that order is the numeric one.
C16_IndicesFollowNames ==
    /\ LexOrderIsNumeric
    /\ pc \in {"probe", "spawn", "gather", "returned"} =>
           /\ { segments[k] : k \in 1..Len(segments) } = Matching
           /\ \A k \in 1..(Len(segments) - 1) : LexLess(segments[k], segments[k + 1])
           /\ \A k \in 1..(Len(segments) - 1) :
                  SegNumber(segments[k]) < SegNumber(segments[k + 1])
    /\ DOMAIN task \in { {}, 0..(Len(segments) - 1) }
    /\ \A i \in DOMAIN task :
           /\ task[i].fname = segments[i + 1]
           /\ Done(i) => task[i].result.index = i
    /\ (outcome.returned /\ segments # <<>>) =>
           /\ { results[k].index : k \in 1..Len(results) } = 0..(Len(segments) - 1)
           /\ Len(results) = Len(segments)
           /\ \A k \in 1..Len(results) : results[k] = task[results[k].index].result

\* a returned run on the two files the splitter wrote: result 1 is that of
\* seg001.mp3, the second name
C16_Witness ==
    /\ outcome.returned
    /\ ~bypass_split
    /\ segments = <<SegName(0), SegName(1)>>
    /\ results[2].index = 1
    /\ task[1].fname = SegName(1)

\* C17: a source of size S <= max_segment_size is copied to the index-0
\* segment file and nothing else happens: the one file written is seg000.mp3
\* with the source's content, the bit rate is not probed, ffmpeg is not run.
C17_SmallSourceCopied ==
    (source.exists /\ source.size <= max_segment_size) =>
        /\ probes = 0
        /\ ffmpeg = <<>>
        /\ seg_pc \in {"start", "returned", "raised"}
        /\ seg_pc = "returned" =>
               (written = { [name |-> SegName(0), content |-> source.content] }
                   /\ raised = "")
        /\ seg_pc # "returned" => written = {}

\* a source exactly as large as the ceiling, copied
C17_Witness ==
    /\ seg_pc = "returned"
    /\ source.exists
    /\ source.size = max_segment_size
    /\ Cardinality(written) = 1

\* floor(0.9 * ceiling / (bits / 8)), from its definition
FloorOfEstimate(ceiling, bits) ==
    CHOOSE d \in 0..(8 * ceiling) :
        /\ 10 * d * bits <= 72 * ceiling
        /\ 72 * ceiling < 10 * (d + 1) * bits

\* the bit rate of a source larger than the ceiling was probed and is B > 0
RateKnown == probes = 1 /\ bitrate_bits.set /\ bitrate_bits.val > 0

\* the duration every ffmpeg split so far was run with
SplitWith(d) == ffmpeg \in { <<>>, <<d>> } /\ (seg_pc = "returned" => ffmpeg = <<d>>)

\* C18 as stated: for S > C and a bit rate B > 0 the duration D handed to
\* ffmpeg is floor(0.9*C/(B/8)) if that lies in [30, fallback], 30 if it is
\* below 30, the fallback if it is above the fallback, and 30 <= D <= fallback
\* for every C, B and fallback.
C18_ClampedBetween ==
    RateKnown =>
        LET f == FloorOfEstimate(max_segment_size, bitrate_bits.val)
            D == duration_target
        IN  /\ (30 <= f /\ f <= fallback_seg_seconds) => D = f
            /\ f < 30 => D = 30
            /\ f > fallback_seg_seconds => D = fallback_seg_seconds
            /\ 30 <= D /\ D <= fallback_seg_seconds
            /\ SplitWith(D)

\* C18 amended: D is min(fallback, max(30, floor(0.9*C/(B/8)))).  With a
\* fallback of at least 30 that is the floor clamped to [30, fallback], and
\* 30 <= D <= fallback; with a fallback below 30, D is the fallback.  D never
\* exceeds the fallback.
C18_ClampedBelowFallback ==
    RateKnown =>
        LET f == FloorOfEstimate(max_segment_size, bitrate_bits.val)
            D == duration_target
        IN  /\ fallback_seg_seconds >= 30 =>
                   /\ (30 <= f /\ f <= fallback_seg_seconds) => D = f
                   /\ f < 30 => D = 30
                   /\ f > fallback_seg_seconds => D = fallback_seg_seconds
                   /\ 30 <= D
            /\ fallback_seg_seconds < 30 => D = fallback_seg_seconds
            /\ D <= fallback_seg_seconds
            /\ SplitWith(D)

\* a split run with the floor itself: 0.9 * 40 / (8 / 8) = 36 s, inside [30, 60]
C18_Witness ==
    /\ seg_pc = "returned"
    /\ RateKnown
    /\ max_segment_size = 40
    /\ bitrate_bits.val = 8
    /\ fallback_seg_seconds = 60
    /\ ffmpeg = <<36>>

\* C19: for S > C and a bit rate B > 0 the duration D keeps the estimated
\* segment size under the ceiling: D * (B/8) <= max_segment_size.
C19_UnderCeiling ==
    RateKnown => duration_target * bitrate_bits.val <= 8 * max_segment_size

\* C20: when the probe of a source larger than the ceiling fails or reports a
\* bit rate <= 0, split_mp3_by_size does not raise for it: it runs ffmpeg with
\* exactly fallback_seg_seconds, and raises only if ffmpeg fails.
C20_ProbeFailureFallsBack ==
    (probes = 1 /\ (~bitrate_bits.set \/ bitrate_bits.val <= 0)) =>
        /\ duration_target = fallback_seg_seconds
        /\ seg_pc \in {"split", "returned", "raised"}
        /\ seg_pc = "split" => (ffmpeg = <<>> /\ raised = "")
        /\ seg_pc = "returned" => (ffmpeg = <<fallback_seg_seconds>> /\ raised = "")
        /\ seg_pc = "raised" =>
               (ffmpeg = <<fallback_seg_seconds>> /\ raised = "CalledProcessError")

\* a split that ran with the fallback of 10 s after the probe had failed
C20_Witness ==
    /\ seg_pc = "returned"
    /\ probes = 1
    /\ bitrate_bits = NoBitrate
    /\ fallback_seg_seconds = 10
    /\ ffmpeg = <<10>>

\* the source at mp3_full_path is not there
SourceAbsent == SourceName \notin work_dir

\* the segment files this call has written: work_dir holds segment files
\* before the call only when bypass_split is set, and then none is written
SegmentsWritten == IF bypass_split THEN {} ELSE Matching

\* transcribe_file has done nothing beyond calling the splitter: no segment
\* file was written, nothing was discovered, probed or sent to the adapter,
\* and nothing was returned
NoWorkDone ==
    /\ pc \in {"start", "raised"}
    /\ SegmentsWritten = {}
    /\ segments = <<>>
    /\ durations = <<>>
    /\ task = <<>>
    /\ ~sem.created
    /\ ~outcome.returned

\* C21 as stated: whenever the source does not exist, for either value of
\* bypass_split, transcribe_file stops before any work (no discovery, no
\* adapter call, no segment file).
C21_MissingSourceStops == SourceAbsent => NoWorkDone

\* C21, amended: when the source does not exist and bypass_split is false,
\* transcribe_file fails in the splitter's existence test before any work: no
\* segment file is written, and no discovery, probe or adapter call happens.
C21_MissingSourceStopsUnlessBypassed == (SourceAbsent /\ ~bypass_split) => NoWorkDone

\* the splitter was called without a source and transcribe_file has raised
C21_Witness ==
    /\ SourceAbsent
    /\ ~bypass_split
    /\ splits = 1
    /\ pc = "raised"

\* the names in the list segments
Discovered == { segments[k] : k \in 1..Len(segments) }

\* C22: transcribe_file calls the splitter exactly once, before discovery and
\* before any adapter call, when bypass_split is false, and never when it is
\* true; either way the segments transcribed are exactly the matching files
\* of work_dir at discovery.
C22_SplitterOnceThenDiscovery ==
    /\ splits = (IF bypass_split \/ pc = "start" THEN 0 ELSE 1)
    /\ pc \in {"start", "discover", "raised"} =>
           (segments = <<>> /\ task = <<>> /\ ~outcome.returned)
    /\ pc \in {"probe", "spawn", "gather", "returned"} =>
           (Discovered = Matching /\ Len(segments) = Cardinality(Matching))
    /\ pc \in {"gather", "returned"} /\ segments # <<>> =>
           /\ DOMAIN task = Indices
           /\ \A i \in Indices : task[i].fname = segments[i + 1]
    /\ outcome.returned => outcome.segments = segments

\* a run that split once, found two segments and sent both to the adapter
C22_Witness ==
    /\ ~bypass_split
    /\ splits = 1
    /\ pc = "returned"
    /\ Len(segments) = 2
    /\ \A i \in Indices : task[i].calls >= 1

\* C24: the duration of segment i is its probed duration when the probe gave
\* a positive value and the nominal seg_seconds when the probe failed (gave
\* 0), segment by segment, whatever the probes of the other segments gave.
C24_DurationPerSegment ==
    /\ Len(durations) = Len(probed)
    /\ pc \in {"spawn", "gather", "returned"} /\ segments # <<>> =>
           Len(probed) = Len(segments)
    /\ \A k \in 1..Len(probed) :
           /\ probed[k] > 0 => durations[k] = probed[k]
           /\ probed[k] = 0 => durations[k] = 2 * seg_seconds

\* the probe failed for the first segment and gave 10.5 s for the second
C24_Witness ==
    /\ pc = "returned"
    /\ probed = <<0, 21>>
    /\ durations = <<2 * seg_seconds, 21>>
    /\ starts = <<0, 2 * seg_seconds>>

\* the number a decimal digit stands for
DigitValue(c) == (CHOOSE k \in 1..10 : DigitChars[k] = c) - 1

\* the number the two digits at positions k and k + 1 of cs spell
TwoDigits(cs, k) == 10 * DigitValue(cs[k]) + DigitValue(cs[k + 1])

\* C25: for every whole number of seconds t in 0..359999, _format_ts(t) is
\* the zero-padded HH:MM:SS (two digits each) with HH*3600 + MM*60 + SS = t,
\* 0 <= MM < 60 and 0 <= SS < 60.
C25_FormatTsExact ==
    (ts_call.fn = "_format_ts" /\ ts_call.returned /\ ts_call.seconds <= 359999) =>
        LET cs == ts_call.out
        IN  /\ Len(cs) = 8
            /\ cs[3] = ":" /\ cs[6] = ":"
            /\ \A k \in {1, 2, 4, 5, 7, 8} : IsDigit(cs[k])
            /\ TwoDigits(cs, 1) * 3600 + TwoDigits(cs, 4) * 60 + TwoDigits(cs, 7)
                   = ts_call.seconds
            /\ TwoDigits(cs, 4) < 60
            /\ TwoDigits(cs, 7) < 60

\* the last second of the range came out as 99:59:59
C25_Witness ==
    /\ ts_call.fn = "_format_ts"
    /\ ts_call.returned
    /\ ts_call.seconds = 359999
    /\ ts_call.out = <<"9", "9", ":", "5", "9", ":", "5", "9">>

\* the first and the last part of schedule_days
FirstLabel(days) == SplitOn(days, "-")[1]

LastLabel(days) == SplitOn(days, "-")[Len(SplitOn(days, "-"))]

\* weekday w lies in the range of the week that runs from day s on to day e
InDayRange(w, s, e) == (w - s) % 7 <= (e - s) % 7

\* C26: within_schedule_window is True whenever enforcement is disabled; when
\* it is enabled and the first and last day labels are valid, it is True if
\* and only if the weekday lies in the day range (which wraps around the week
\* when the start label comes after the end label, so that SUN-SAT covers all
\* seven days) and schedule_start_hour <= hour <= schedule_end_hour.
C26_WindowSemantics ==
    (window_call.fn = "within_schedule_window" /\ window_call.returned) =>
        LET c == window_call.c
            now == window_call.now
            in_hours == c.schedule_start_hour <= now.hour
                            /\ now.hour <= c.schedule_end_hour
        IN  /\ ~c.time_window_enabled => window_call.out
            /\ ( /\ c.time_window_enabled
                 /\ IsLabel(FirstLabel(c.schedule_days))
                 /\ IsLabel(LastLabel(c.schedule_days)) ) =>
                   (window_call.out <=>
                       /\ InDayRange(now.weekday, IdxFor(FirstLabel(c.schedule_days)),
                                     IdxFor(LastLabel(c.schedule_days)))
                       /\ in_hours)
            /\ ( /\ c.time_window_enabled
                 /\ c.schedule_days = Label(6) \o <<"-">> \o Label(5)
                 /\ in_hours ) => window_call.out

\* FRI-MON wraps: a Sunday at noon, with the hours 8..22, is in the window
C26_Witness ==
    /\ window_call.fn = "within_schedule_window"
    /\ window_call.returned
    /\ window_call.c.time_window_enabled
    /\ window_call.c.schedule_days = Label(4) \o <<"-">> \o Label(0)
    /\ window_call.c.schedule_start_hour = 8
    /\ window_call.c.schedule_end_hour = 22
    /\ window_call.now = [weekday |-> 6, hour |-> 12]
    /\ window_call.out

\* the characters of the sequence cs
CharsOf(cs) == { cs[k] : k \in 1..Len(cs) }

\* C27: with the default replacement, sanitize_filename returns for every
\* name a non-empty name of at most 200 characters with none of the
\* characters < > : " / \ | ? *, and returns 'file' when the name consists
\* only of such characters.
C27_SanitizedName ==
    (sanitize_call.fn = "sanitize_filename" /\ sanitize_call.returned) =>
        /\ sanitize_call.out # <<>>
        /\ Len(sanitize_call.out) <= 200
        /\ CharsOf(sanitize_call.out) \cap Reserved = {}
        /\ CharsOf(sanitize_call.name) \subseteq Reserved =>
               sanitize_call.out = <<"f", "i", "l", "e">>

\* a name of 202 characters with reserved ones came back cut to 200
C27_Witness ==
    /\ sanitize_call.fn = "sanitize_filename"
    /\ sanitize_call.returned
    /\ Len(sanitize_call.name) > 200
    /\ ":" \in CharsOf(sanitize_call.name)
    /\ Len(sanitize_call.out) = 200
    /\ "a" \in CharsOf(sanitize_call.out)

\* a transcription-service credential is missing
CredentialsAbsent == ~(cfg.runpod_api_key /\ cfg.runpod_endpoint_id)

\* the positions of effects where op was called
Calls(op) == { k \in 1..Len(effects) : effects[k].op = op }

\* the calls that work on a file: download, conversion, and transcribe_file,
\* inside which the splitter and the adapter run
FileWork == Calls("download_file") \cup Calls("convert_to_mp3") \cup Calls("transcribe_file")

\* C23 as stated: whenever the credentials are absent, the run returns the
\* error model_load_failed, before any download, conversion, split or adapter
\* call.
C23_AbsentCredentialsFailLoad ==
    (run_pc = "returned" /\ CredentialsAbsent) =>
        (ret = Error("model_load_failed") /\ FileWork = {})

\* C23, amended: when the credentials are absent and the run reaches
\* load_model, it returns the error model_load_failed before any file is
\* downloaded, converted, split or sent to the adapter, after a single call of
\* load_model; a run that returns before load_model has touched no file either.
C23_AbsentCredentialsStopAtLoad ==
    (run_pc # "idle" /\ CredentialsAbsent) =>
        /\ FileWork = {}
        /\ run_pc \notin {"download", "convert", "transcribe"}
        /\ Cardinality(Calls("load_model")) <= 1
        /\ Calls("load_model") # {} =>
               (run_pc = "returned" /\ ret = Error("model_load_failed"))

\* two files were listed, the endpoint id is missing, and the run ended in
\* model_load_failed
C23_Witness ==
    /\ run_pc = "returned"
    /\ cfg.runpod_api_key
    /\ ~cfg.runpod_endpoint_id
    /\ Len(files) = 2
    /\ Calls("load_model") # {}
    /\ ret = Error("model_load_failed")

\* the effects as a set
EffectSet == { effects[k] : k \in 1..Len(effects) }

\* C28: every listed file whose download and conversion succeed and whose
\* splitter does not raise gets its transcript written, its email tried, is
\* moved to the processed folder, and has a summary with 'segments' and
\* 'email_sent', never a 'transcription_failed' error.
C28_ConvertedFileDelivered ==
    \A k \in 1..Len(summaries) :
        LET s == summaries[k]
        IN  ( /\ Effect("download_file", s.id, TRUE) \in EffectSet
              /\ Effect("convert_to_mp3", s.id, TRUE) \in EffectSet
              /\ Effect("transcribe_file", s.id, FALSE) \notin EffectSet ) =>
                /\ s.error # "transcription_failed"
                /\ {"segments", "email_sent"} \subseteq s.keys
                /\ Effect("transcribe_file", s.id, TRUE) \in EffectSet
                /\ Effect("write", s.id, TRUE) \in EffectSet
                /\ Effect("move_file_to_folder", s.id, TRUE) \in EffectSet

\* C29: a file is moved only after transcribe_file returned for it without
\* raising; a file whose download, conversion or transcription raised gets an
\* 'error' summary, is neither emailed nor moved, and the loop goes on with
\* the next file.
C29_MoveOnlyAfterTranscription ==
    /\ \A k \in Calls("move_file_to_folder") :
           \E j \in 1..(k - 1) : effects[j] = Effect("transcribe_file", effects[k].file, TRUE)
    /\ \A k \in 1..Len(summaries) :
           LET s == summaries[k]
           IN  /\ s.id = files[k]
               /\ s.error # "" =>
                      /\ "error" \in s.keys
                      /\ s.error \in {"download_failed", "conversion_failed",
                                       "transcription_failed"}
                      /\ \A j \in Calls("send_transcription_email")
                                   \cup Calls("move_file_to_folder") :
                             effects[j].file # s.id
    /\ \A f \in 1..Len(files) :
           ( \/ Effect("download_file", f, FALSE) \in EffectSet
             \/ Effect("convert_to_mp3", f, FALSE) \in EffectSet
             \/ Effect("transcribe_file", f, FALSE) \in EffectSet ) =>
               (Len(summaries) >= f /\ summaries[f].error # "")
    /\ run_pc \in {"download", "convert", "transcribe"} =>
           (file_index = Len(summaries) + 1 /\ file_index <= Len(files))
    /\ ret = ReturnsProcessed => Len(summaries) = Len(files)

\* the transcription of the first file and the conversion of the second
\* raised; both have their error summary and the run returned its list
C29_Witness ==
    /\ ret = ReturnsProcessed
    /\ Len(files) = 2
    /\ Len(summaries) = 2
    /\ summaries[1].error = "transcription_failed"
    /\ summaries[2].error = "conversion_failed"
    /\ Calls("move_file_to_folder") = {}

\* C30: outside the schedule window process_drive_files returns the status
\* 'outside schedule window' and does nothing else: no Drive authentication,
\* listing, download, model loading, email or move; the test comes before
\* every other test, skip_drive and the missing folder id included.
C30_OutsideWindowReturnsFirst ==
    (run_pc # "idle" /\ ~cfg.within_schedule_window) =>
        /\ effects = <<>>
        /\ summaries = <<>>
        /\ files = <<>>
        /\ run_pc \in {"start", "returned"}
        /\ run_pc = "returned" => ret = Status("outside schedule window")

\* outside the window, with skip_drive set and no folder id, the run
\* returned the schedule status
C30_Witness ==
    /\ run_pc = "returned"
    /\ ~cfg.within_schedule_window
    /\ cfg.skip_drive
    /\ ~cfg.drive_folder_id
    /\ ret = Status("outside schedule window")
    /\ effects = <<>>

\* the ids of the summaries appended so far, in order
SummaryIds == [k \in 1..Len(summaries) |-> summaries[k].id]

\* C31: once process_drive_files is in the per-file loop it appends exactly
\* one summary per listed file, in listing order, whatever mix of download,
\* conversion and transcription failures occurs, and the returned total_files
\* is the number of listed files.
C31_OneSummaryPerFile ==
    /\ Len(summaries) <= Len(files)
    /\ SummaryIds = SubSeq(files, 1, Len(summaries))
    /\ run_pc \in {"download", "convert", "transcribe"} =>
           Len(summaries) = file_index - 1
    /\ ret = ReturnsProcessed =>
           (SummaryIds = files /\ TotalFiles = Len(files))

\* the download of the first file and the transcription of the second
\* failed, and the run returned two summaries for two files
C31_Witness ==
    /\ ret = ReturnsProcessed
    /\ files = <<1, 2>>
    /\ TotalFiles = 2
    /\ summaries[1] = Failed(1, "download_failed")
    /\ summaries[2] = Failed(2, "transcription_failed")

\* the position of the one call of op for file f, 0 when there is none
CallOf(op, f) ==
    LET ks == { k \in Calls(op) : effects[k].file = f }
    IN  IF ks = {} THEN 0 ELSE CHOOSE k \in ks : \A j \in ks : k <= j

Reasons == ErrorMessages \cup {"empty transcription"}

\* C33: the text returned for a segment that got text is the text of the
\* fragments of one stream, that of its successful attempt: what an earlier
\* attempt had collected when its stream raised is not in it, and a
\* placeholder is built from the times and the reason only.
C33_OnlyTheSuccessfulAttempt ==
    \A i \in DOMAIN task :
        /\ GotText(i) =>
               /\ task[i].result.text = task[i].final.text
               /\ \E stream \in Streams :
                      task[i].result.text = AttemptText(Collected(stream))
        /\ GotPlaceholder(i) =>
               \E msg \in Reasons :
                   task[i].result.text \in { Placeholder(i, None), Placeholder(i, Some(msg)) }

\* a segment whose first stream raised after a fragment and whose second
\* attempt returned text
C33_Witness ==
    \E i \in DOMAIN task :
        /\ GotText(i)
        /\ task[i].dropped # <<>>
        /\ task[i].fails = 1
        /\ task[i].calls = 2

\* the segments inside their retry loop: in an attempt or in a backoff sleep
Retrying == { i \in DOMAIN task : task[i].pc \in {"attempt", "sleep"} }

\* segment j ran its whole retry loop: it got text, or it failed every attempt
RanWholeLoop(t, j) ==
    /\ t[j].pc = "done"
    /\ t[j].final.kind = "text" \/ t[j].fails = Attempts

\* C34: a segment inside its retry loop stays inside the gate until the loop
\* is over, through every attempt and every backoff sleep; in a step in which
\* no segment finishes, nobody is admitted while max_concurrency segments hold
\* the permits; and a waiting segment is admitted only when some segment has
\* run its whole retry loop.
C34_PermitKeptThroughRetries ==
    [][ LET Finishing == { j \in DOMAIN task : task[j].pc # "done" /\ task'[j].pc = "done" }
            Admitted == { i \in DOMAIN task : /\ task[i].pc \in {"created", "waiting"}
                                              /\ task'[i].pc \in {"woken", "attempt"} }
        IN  task # <<>> /\ DOMAIN task' = DOMAIN task =>
              /\ \A j \in Retrying : task'[j].pc \in {"attempt", "sleep", "done"}
              /\ \A j \in Finishing : RanWholeLoop(task', j)
              /\ (Cardinality(InFlight) = max_concurrency /\ Finishing = {}) =>
                     Admitted = {}
              /\ \A i \in DOMAIN task :
                     (task[i].pc = "waiting" /\ task'[i].pc = "woken") =>
                         \E j \in DOMAIN task : RanWholeLoop(task', j)
              /\ (Finishing = {} /\ Admitted = {}) => sem'.value = sem.value ]_vars

\* a gate of one permit whose holder sleeps between two attempts while the
\* other segment waits, and the same run once the holder is done and the
\* waiter is in its attempt
C34_Witness ==
    /\ max_concurrency = 1
    /\ DOMAIN task = {0, 1}
    /\ task[0].pc = "done"
    /\ task[0].sleeps # <<>>
    /\ task[1].pc = "attempt"
    /\ task[1].calls = 1

\* every segment has been admitted through the gate: it made an adapter call
AllAdmitted == \A i \in Indices : i \in DOMAIN task /\ task[i].calls >= 1

\* C35: once the segment files of a call with max_concurrency >= 1 are
\* there, every segment is eventually admitted through the gate and
\* transcribe_file eventually returns, for every number of segments and of
\* retries; with max_concurrency = 0 and at least one segment, no segment is
\* ever admitted and the call never returns.
C35_TerminatesUnlessClosed ==
    /\ (max_concurrency >= 1 /\ pc = "discover")
           ~> (outcome.returned /\ (segments # <<>> => AllAdmitted))
    /\ [](max_concurrency = 0 /\ segments # <<>> =>
             /\ ~outcome.returned
             /\ \A i \in DOMAIN task :
                    task[i].calls = 0 /\ task[i].pc \in {"created", "waiting"})

\* a returned call with two permits and two segments, both admitted, one of
\* them after a backoff sleep
C35_Witness ==
    /\ outcome.returned
    /\ max_concurrency = 2
    /\ Len(segments) = 2
    /\ AllAdmitted
    /\ \E i \in DOMAIN task : task[i].sleeps # <<>>
====
